---- MODULE Spec2Model ----
(***************************************************************************)
(* Model of openllm-core's configuration resolver (global provider cache,  *)
(* native YAML files, RPC host settings) and secret resolver.              *)
(*                                                                         *)
(* Strings that the code inspects character by character (provider names,  *)
(* secret keys, environment variable names) are sequences of one-character *)
(* strings, so that to_lowercase / to_uppercase / eq_ignore_ascii_case are  *)
(* computed, not assumed.  Opaque strings (scopes, endpoint names, urls)   *)
(* are TLA+ strings.  Option<T> is a sequence of length 0 (None) or 1.     *)
(***************************************************************************)
EXTENDS Integers, Sequences, FiniteSets, TLC

VARIABLES
    providers,    \* GLOBAL_PROVIDERS: lowercase name -> ResolvedProvider
    files,        \* native YAML files, per scope
    registry,     \* GLOBAL_REGISTRY: names of the registered RPC endpoints
    hostUp,       \* per endpoint: the host answers lifecycle/ping with ok
    hostSettings, \* per endpoint and scope: the host's provider settings
    th,           \* per thread: its resolver instance and the call in progress
    opsLeft,      \* calls that may still be started
    concurrent,   \* whether calls of different threads may overlap
    environ,      \* the process environment: variable name -> value
    dotenvFile,   \* ./.env: None, or its assignment lines
    keychain,     \* the OS credential store
    hostSecrets,  \* per endpoint: the host's SecretStorage
    hostReady,    \* per endpoint: whether the host answers lifecycle/ping with ok: true
    sres,         \* a UnifiedSecretResolver
    sout,         \* the outcome of the resolver's last resolve call
    mem,          \* a MemoryConfigProvider: its providers
    fcp,          \* a FileConfigProvider: its file on disk and its cache
    cout,         \* the outcome of the last call on a config store
    endpoints,    \* an RpcEndpointRegistry: name -> RpcEndpoint
    regLog,       \* the register and unregister calls made on it, in order
    rout,         \* the outcome of the last call on the registry
    clients,      \* the RpcClient instances: request_id of each
    reqLog,       \* the requests issued, in order: client, id, answered
    peer,         \* the socket an RpcClient talks to, and the host behind it
    rpcClient,    \* an RpcClient and the outcome of its last call or ping
    keyring,      \* the keyring backend of a KeychainSecretStore, and its last store
    msec,         \* a MemorySecretStore, the calls made on it, and its last answer
    chain,        \* a ChainSecretStore: its members and its last answer
    token         \* a CancellationToken with its clones, and the threads using it

configVars == <<providers, files, hostSettings, th, opsLeft, concurrent>>
secretVars == <<environ, dotenvFile, keychain, hostSecrets, hostReady, sres, sout>>
storeVars == <<mem, fcp, cout>>
registryVars == <<endpoints, regLog, rout>>
clientVars == <<clients, reqLog>>
wireVars == <<peer, rpcClient>>
backendVars == <<keyring, msec, chain, token>>
unitVars == <<storeVars, registryVars, clientVars, wireVars, backendVars>>
vars == <<providers, files, registry, hostUp, hostSettings, th, opsLeft, concurrent,
          environ, dotenvFile, keychain, hostSecrets, hostReady, sres, sout, mem, fcp, cout,
          endpoints, regLog, rout, clients, reqLog, peer, rpcClient,
          keyring, msec, chain, token>>

----------------------------------------------------------------------------
(* Bounds *)

MaxOps == 2
MaxOpsConc == 2
MaxEndpoints == 2
\* Number of config resolver calls in a run that also writes secrets
MaxOpsPreview == 1
\* Longest provider list a stand-alone config store is grown to
MaxProviders == 3
\* Number of register / unregister calls on the endpoint registry
MaxRegistryCalls == 4
\* Number of RpcClient instances, and of requests issued
MaxClients == 2
MaxRequests == 4

----------------------------------------------------------------------------
(* Option *)

None == <<>>
Some(x) == <<x>>
IsSome(o) == Len(o) = 1
Unwrap(o) == o[1]

----------------------------------------------------------------------------
(* Character-level string functions *)

LowerLetters == <<"a","b","c","d","e","f","g","h","i","j","k","l","m",
                  "n","o","p","q","r","s","t","u","v","w","x","y","z">>
UpperLetters == <<"A","B","C","D","E","F","G","H","I","J","K","L","M",
                  "N","O","P","Q","R","S","T","U","V","W","X","Y","Z">>

\* The ASCII letters' counterparts in the other case
LowerOf ==
    [c \in { UpperLetters[i] : i \in 1..Len(UpperLetters) } |->
        LowerLetters[CHOOSE i \in 1..Len(UpperLetters) : UpperLetters[i] = c]]
UpperOf ==
    [c \in { LowerLetters[i] : i \in 1..Len(LowerLetters) } |->
        UpperLetters[CHOOSE i \in 1..Len(LowerLetters) : LowerLetters[i] = c]]

LowerChar(c) == IF c \in DOMAIN LowerOf THEN LowerOf[c] ELSE c

UpperChar(c) == IF c \in DOMAIN UpperOf THEN UpperOf[c] ELSE c

\* A letter outside ASCII and its upper-case form, each one char
SmallWideLetter == "e-acute"
CapitalWideLetter == "E-acute"

\* str::to_lowercase, which follows Unicode: it also lowers letters outside
\* ASCII, which LowerChar (u8::to_ascii_lowercase) leaves alone
ToLowercase(s) ==
    [i \in 1..Len(s) |-> IF s[i] = CapitalWideLetter THEN SmallWideLetter ELSE LowerChar(s[i])]

\* str::to_uppercase, which follows Unicode
ToUppercase(s) ==
    [i \in 1..Len(s) |-> IF s[i] = SmallWideLetter THEN CapitalWideLetter ELSE UpperChar(s[i])]

\* str::eq_ignore_ascii_case
EqIgnoreAsciiCase(a, b) ==
    /\ Len(a) = Len(b)
    /\ \A i \in 1..Len(a) : LowerChar(a[i]) = LowerChar(b[i])

----------------------------------------------------------------------------
(* Sequence helpers *)

RECURSIVE SelectSeqBy(_, _)
\* Vec::retain / iter().filter(): the members of s whose index is in keep
SelectSeqBy(s, keep) ==
    IF s = <<>> THEN <<>>
    ELSE LET rest == SelectSeqBy(Tail(s), {i - 1 : i \in keep \ {1}})
         IN IF 1 \in keep THEN <<Head(s)>> \o rest ELSE rest

\* iter().position(pred): index of the first member in hits, 0 if none
FirstIndex(hits) == IF hits = {} THEN 0 ELSE CHOOSE i \in hits : \A j \in hits : i <= j

----------------------------------------------------------------------------
(* Data: provider names, records, scopes, endpoints *)

N_ai == <<"a", "i">>
N_Ai == <<"A", "i">>
N_b == <<"b">>
\* The names callers look up and remove
ProviderNames == {N_ai, N_b}

Scopes == {"user", "workspace"}
EndpointNames == {"vscode", "alt"}
Threads == {"t1", "t2"}
WsPath == "ws"

\* types::ProviderConfig as persisted (source is #[serde(skip)])
ProviderConfig(n, e, b, m) == [name |-> n, enabled |-> e, api_base |-> b, models |-> m]

\* The records callers pass to save_provider
ProviderInputs ==
    { ProviderConfig(N_Ai, FALSE, Some("u1"), <<>>),
      ProviderConfig(N_b, TRUE, None, <<"m2">>) }

\* resolver::ResolvedProvider
ResolvedProvider(p, src, detail) ==
    [name |-> p.name, enabled |-> p.enabled, api_base |-> p.api_base,
     models |-> p.models, source |-> src, source_detail |-> detail]

\* The persisted fields of a cache entry
Persisted(e) == ProviderConfig(e.name, e.enabled, e.api_base, e.models)

\* config::file::ConfigFile on disk.  state: the path is absent, holds a
\* parseable document, or holds text serde_yaml rejects.
ConfigFile(ps, d) == [state |-> "ok", providers |-> ps, defaults |-> d]
MissingFile == [state |-> "missing", providers |-> <<>>, defaults |-> None]
CorruptFile == [state |-> "corrupt", providers |-> <<>>, defaults |-> None]

\* UnifiedConfigResolver { workspace_path, rpc_endpoints, config_source }
Resolver(ws, eps, src) == [workspace_path |-> ws, rpc_endpoints |-> eps, config_source |-> src]

\* UnifiedConfigResolver::new
NewResolver == Resolver(None, <<"vscode">>, "Native")

\* UnifiedConfigResolver::with_workspace
WithWorkspace(path) == Resolver(Some(path), <<"vscode">>, "Native")

----------------------------------------------------------------------------
(* Global provider cache *)

\* HashMap::insert
MapInsert(m, k, v) == [x \in (DOMAIN m) \cup {k} |-> IF x = k THEN v ELSE m[x]]

EmptyMap == [x \in {} |-> None]

RECURSIVE InsertAll(_, _, _, _)
\* the `for p in providers { providers_map.insert(p.name.to_lowercase(), ..) }` loops
InsertAll(m, ps, src, detail) ==
    IF ps = <<>> THEN m
    ELSE InsertAll(MapInsert(m, ToLowercase(Head(ps).name),
                             ResolvedProvider(Head(ps), src, detail)),
                   Tail(ps), src, detail)

\* get_all_providers: guard.values().cloned().collect(), in no particular order
GetAllProviders(m) == { m[k] : k \in DOMAIN m }

\* get_provider: the entries find() can return for name; None if there is none
GetProvider(m, name) ==
    LET hits == { e \in GetAllProviders(m) : EqIgnoreAsciiCase(e.name, name) }
    IN IF hits = {} THEN {None} ELSE { Some(e) : e \in hits }

----------------------------------------------------------------------------
(* Native files *)

\* FileConfigProvider::exists
Exists(f) == f.state # "missing"

\* FileConfigProvider::load: Ok(document) or Err (None here)
Load(f) ==
    CASE f.state = "missing" -> Some([providers |-> <<>>, defaults |-> None])
      [] f.state = "ok"      -> Some([providers |-> f.providers, defaults |-> f.defaults])
      [] OTHER               -> None

\* ConfigProvider::get_providers for FileConfigProvider: unwrap_or_default
FileGetProviders(f) == IF IsSome(Load(f)) THEN Unwrap(Load(f)).providers ELSE <<>>

\* compute_source_detail
ComputeSourceDetail(r, scope) ==
    IF r.config_source = "VsCode"
    THEN "vscode " \o (IF scope = "user" THEN "User" ELSE "Workspace") \o " Settings"
    ELSE IF scope = "workspace" THEN ".config/openllm/config.yaml"
         ELSE "~/.config/openllm/config.yaml"

\* FileConfigProvider::path, as save_provider reports it
FilePath(scope) ==
    IF scope = "workspace" THEN WsPath \o "/.config/openllm/config.yaml"
    ELSE "<config_dir>/openllm/config.yaml"

----------------------------------------------------------------------------
(* Write routing and persistence, as pure functions *)

\* The source tag save_provider gives the cache entry
SaveSource(r, scope) ==
    (IF r.config_source = "VsCode" THEN "rpc:vscode" ELSE "native") \o ":" \o scope

\* Variant: the entry is stored under the name as given, not lowercased
SaveUpdateMemory_RawKey(m, r, p, scope) ==
    MapInsert(m, p.name,
              ResolvedProvider(p, SaveSource(r, scope), ComputeSourceDetail(r, scope)))

\* save_provider step 1: providers.insert(key, provider_with_source)
SaveUpdateMemory(m, r, p, scope) ==
    MapInsert(m, ToLowercase(p.name),
              ResolvedProvider(p, SaveSource(r, scope), ComputeSourceDetail(r, scope)))

NativeDest(scope) == [kind |-> "native", endpoint |-> "", scope |-> scope]
RpcDest(ep, scope) == [kind |-> "rpc", endpoint |-> ep, scope |-> scope]

\* Variant: the last registered name of the list is chosen, not the first
GetWriteDestination_LastRegistered(r, reg, scope) ==
    IF r.config_source = "Native" THEN NativeDest(scope)
    ELSE LET hits == { i \in 1..Len(r.rpc_endpoints) : r.rpc_endpoints[i] \in reg }
         IN IF hits # {}
            THEN RpcDest(r.rpc_endpoints[CHOOSE i \in hits : \A j \in hits : j <= i], scope)
            ELSE NativeDest(scope)

\* get_write_destination
GetWriteDestination(r, reg, scope) ==
    IF r.config_source = "Native" THEN NativeDest(scope)
    ELSE LET hits == { i \in 1..Len(r.rpc_endpoints) : r.rpc_endpoints[i] \in reg }
         IN IF hits # {} THEN RpcDest(r.rpc_endpoints[FirstIndex(hits)], scope)
            ELSE NativeDest(scope)

\* Variant: the record is always pushed, an existing entry is left in place
MergeProvider_AlwaysPush(file_providers, p) == Append(file_providers, p)

\* save_provider: "Find and update or add" on the providers read from the file
MergeProvider(file_providers, p) ==
    LET idx == FirstIndex({ i \in 1..Len(file_providers) :
                              EqIgnoreAsciiCase(file_providers[i].name, p.name) })
    IN IF idx # 0 THEN [file_providers EXCEPT ![idx] = p]
       ELSE Append(file_providers, p)

\* remove_provider: providers.retain(|p| !p.name.eq_ignore_ascii_case(provider_name))
RetainOthers(file_providers, name) ==
    SelectSeqBy(file_providers,
                { i \in 1..Len(file_providers) :
                    ~EqIgnoreAsciiCase(file_providers[i].name, name) })

\* FileConfigProvider::get_config: the instance's cache if set, else load()
GetConfig(fcache, f) == IF IsSome(fcache) THEN fcache ELSE Load(f)

\* FileConfigProvider::import_providers + save, the write succeeding:
\* the document written, or None when get_config fails
ImportProviders(fcache, f, ps) ==
    IF IsSome(GetConfig(fcache, f))
    THEN Some(ConfigFile(ps, Unwrap(GetConfig(fcache, f)).defaults))
    ELSE None

\* The host's handling of config/set: the entry named `name` gets the fields
\* that ConfigSetData carries (None fields are not serialized)
HostSetProvider(ps, name, enabled, models, api_base) ==
    LET idx == FirstIndex({ i \in 1..Len(ps) : ps[i].name = name })
        old == IF idx # 0 THEN ps[idx] ELSE ProviderConfig(name, TRUE, None, <<>>)
        new == ProviderConfig(name, enabled, IF IsSome(api_base) THEN api_base ELSE old.api_base, models)
    IN IF idx # 0 THEN [ps EXCEPT ![idx] = new] ELSE Append(ps, new)

\* RpcConfigProvider::is_reachable for a registered endpoint
IsReachable(up, ep) == up[ep]

ScopeWord(scope) == IF scope = "user" THEN "User" ELSE "Workspace"

----------------------------------------------------------------------------
(* Threads: each owns a resolver instance (a clone) and runs one call at a
   time; the fields after `res` are the locals of the call in progress and
   what it has touched.  disturbed: the registry or a host changed while the
   call was running. *)

IdleThread(r) ==
    [pc |-> "idle", res |-> r, op |-> "none", scope |-> "", prov |-> None,
     name |-> <<>>, pmap |-> EmptyMap, idx |-> 0, fprov |-> <<>>, fcache |-> None,
     dest |-> None, result |-> None, rpcProbed |-> FALSE, fileProbed |-> FALSE,
     rpcForms |-> {}, wrote |-> {}, disturbed |-> FALSE, inner |-> None]

Ok(v) == Some([ok |-> TRUE, val |-> v])
Err(v) == Some([ok |-> FALSE, val |-> v])

\* A call returns: its locals are dropped, its outcome and footprint stay
\* visible until the thread's next call; a call that the Node binding ran on
\* a clone of its resolver leaves the binding's own resolver behind
Return(c, result) ==
    [c EXCEPT !.pc = "idle", !.result = result, !.pmap = EmptyMap, !.idx = 0,
              !.fprov = <<>>, !.fcache = None,
              !.res = IF IsSome(c.inner) THEN Unwrap(c.inner) ELSE c.res,
              !.inner = None]

CanStart(t) ==
    /\ th[t].pc = "idle"
    /\ opsLeft > 0
    /\ concurrent \/ \A u \in Threads : th[u].pc = "idle"

\* A call begins: the outcomes of calls that completed earlier are no longer
\* observed
Started(t, c) ==
    [u \in Threads |->
        IF u = t THEN c
        ELSE IF th[u].pc = "idle" THEN IdleThread(th[u].res) ELSE th[u]]

Call(t, op, scope, prov, name) ==
    [IdleThread(th[t].res) EXCEPT !.op = op, !.scope = scope, !.prov = prov, !.name = name]

----------------------------------------------------------------------------
(* save_provider *)

\* Variant: the call goes to persistence without the memory update
SaveProvider_PersistFirst(t, p, scope) ==
    /\ CanStart(t)
    /\ th' = Started(t, [Call(t, "save_provider", scope, Some(p), p.name)
                                  EXCEPT !.pc = "save_persist"])
    /\ opsLeft' = opsLeft - 1
    /\ UNCHANGED <<providers, files, registry, hostUp, hostSettings, concurrent>>
    /\ UNCHANGED <<secretVars, unitVars>>

\* Step 1: the memory update under the write lock
SaveProvider(t, p, scope) ==
    /\ CanStart(t)
    /\ providers' = SaveUpdateMemory(providers, th[t].res, p, scope)
    /\ th' = Started(t, [Call(t, "save_provider", scope, Some(p), p.name)
                                  EXCEPT !.pc = "save_persist"])
    /\ opsLeft' = opsLeft - 1
    /\ UNCHANGED <<files, registry, hostUp, hostSettings, concurrent>>
    /\ UNCHANGED <<secretVars, unitVars>>

\* Step 2: get_write_destination; for a native destination, the read of the
\* file's current providers and the merge
SavePersist(t) ==
    LET c == th[t]
        dest == GetWriteDestination(c.res, registry, c.scope)
        f == files[c.scope]
    IN /\ c.pc = "save_persist"
       /\ th' = [th EXCEPT ![t] =
            IF dest.kind = "rpc"
            THEN [c EXCEPT !.pc = "save_rpc", !.dest = Some(dest)]
            ELSE IF c.scope = "workspace" /\ ~IsSome(c.res.workspace_path)
            THEN Return([c EXCEPT !.dest = Some(dest)],
                        Err("No workspace path set for workspace-level config"))
            ELSE [c EXCEPT !.pc = "save_file_write", !.dest = Some(dest),
                           !.fileProbed = TRUE,
                           !.fcache = IF Exists(f) THEN Load(f) ELSE None,
                           !.fprov = MergeProvider(IF Exists(f) THEN FileGetProviders(f) ELSE <<>>,
                                                   Unwrap(c.prov))]]
       /\ UNCHANGED <<providers, files, registry, hostUp, hostSettings, opsLeft, concurrent>>
       /\ UNCHANGED <<secretVars, unitVars>>

\* Step 3, RPC destination: get_rpc_endpoint again, then config/set
SaveRpc(t) ==
    LET c == th[t]
        ep == Unwrap(c.dest).endpoint
        p == Unwrap(c.prov)
    IN /\ c.pc = "save_rpc"
       /\ \/ /\ ep \notin registry
             /\ th' = [th EXCEPT ![t] = Return(c, Err("RPC endpoint '" \o ep \o "' not found"))]
             /\ UNCHANGED hostSettings
          \/ /\ ep \in registry
             /\ \E accepted \in BOOLEAN :
                  IF IsReachable(hostUp, ep) /\ accepted
                  THEN /\ hostSettings' = [hostSettings EXCEPT ![ep][c.scope] =
                              HostSetProvider(@, p.name, p.enabled, p.models, p.api_base)]
                       /\ th' = [th EXCEPT ![t] =
                              Return([c EXCEPT !.rpcProbed = TRUE,
                                               !.wrote = @ \cup {"rpc:" \o ep \o ":" \o c.scope}],
                                     Ok(ep \o " " \o ScopeWord(c.scope) \o " Settings"))]
                  ELSE /\ UNCHANGED hostSettings
                       /\ th' = [th EXCEPT ![t] =
                              Return([c EXCEPT !.rpcProbed = TRUE], Err("RPC write failed"))]
       /\ UNCHANGED <<providers, files, registry, hostUp, opsLeft, concurrent>>
       /\ UNCHANGED <<secretVars, unitVars>>

\* Step 3, native destination: import_providers(file_providers)
SaveFileWrite(t) ==
    LET c == th[t]
        doc == ImportProviders(c.fcache, files[c.scope], c.fprov)
    IN /\ c.pc = "save_file_write"
       /\ \E written \in BOOLEAN :
            IF IsSome(doc) /\ written
            THEN /\ files' = [files EXCEPT ![c.scope] = Unwrap(doc)]
                 /\ th' = [th EXCEPT ![t] =
                        Return([c EXCEPT !.wrote = @ \cup {"file:" \o c.scope}],
                               Ok(FilePath(c.scope)))]
            ELSE /\ UNCHANGED files
                 /\ th' = [th EXCEPT ![t] = Return(c, Err("Failed to write config"))]
       /\ UNCHANGED <<providers, registry, hostUp, hostSettings, opsLeft, concurrent>>
       /\ UNCHANGED <<secretVars, unitVars>>

\* toggle_provider: get_provider, then save_provider of the record built from
\* what was found; the step ends after save_provider's insert into the cache
ToggleProvider(t, provider_name, enabled, scope) ==
    /\ CanStart(t)
    /\ \E existing \in GetProvider(providers, provider_name) :
          LET provider == ProviderConfig(provider_name, enabled,
                              IF IsSome(existing) THEN Unwrap(existing).api_base ELSE None,
                              IF IsSome(existing) THEN Unwrap(existing).models ELSE <<>>)
          IN /\ providers' = SaveUpdateMemory(providers, th[t].res, provider, scope)
             /\ th' = Started(t, [Call(t, "toggle_provider", scope, Some(provider), provider_name)
                                     EXCEPT !.pc = "save_persist"])
    /\ opsLeft' = opsLeft - 1
    /\ UNCHANGED <<files, registry, hostUp, hostSettings, concurrent>>
    /\ UNCHANGED <<secretVars, unitVars>>

\* update_provider_models: get_provider, then save_provider of the record
\* with the given models; enabled is true when nothing was found
UpdateProviderModels(t, provider_name, models, scope) ==
    /\ CanStart(t)
    /\ \E existing \in GetProvider(providers, provider_name) :
          LET provider == ProviderConfig(provider_name,
                              IF IsSome(existing) THEN Unwrap(existing).enabled ELSE TRUE,
                              IF IsSome(existing) THEN Unwrap(existing).api_base ELSE None,
                              models)
          IN /\ providers' = SaveUpdateMemory(providers, th[t].res, provider, scope)
             /\ th' = Started(t, [Call(t, "update_provider_models", scope, Some(provider),
                                       provider_name)
                                     EXCEPT !.pc = "save_persist"])
    /\ opsLeft' = opsLeft - 1
    /\ UNCHANGED <<files, registry, hostUp, hostSettings, concurrent>>
    /\ UNCHANGED <<secretVars, unitVars>>

----------------------------------------------------------------------------
(* load_from_sources, and the setters that end in it *)

UserDetail == "~/.config/openllm/config.yaml"
WsDetail == ".config/openllm/config.yaml"

\* "1. Native YAML user config"
LoadNativeUser(f) ==
    IF Exists(f) THEN InsertAll(EmptyMap, FileGetProviders(f), "native:user", UserDetail)
    ELSE EmptyMap

\* "2. Native YAML workspace config (overrides user)"
LoadNativeWorkspace(m, r, f) ==
    IF IsSome(r.workspace_path) /\ Exists(f)
    THEN InsertAll(m, FileGetProviders(f), "native:workspace", WsDetail)
    ELSE m

\* One iteration of the VsCode loop: the endpoint's user settings, then its
\* workspace settings, if it is registered and reachable
LoadRpcEndpoint(m, ep, reg, up, settings) ==
    IF ep \in reg /\ IsReachable(up, ep)
    THEN InsertAll(InsertAll(m, settings[ep]["user"],
                             "rpc:" \o ep \o ":user", ep \o " User Settings"),
                   settings[ep]["workspace"],
                   "rpc:" \o ep \o ":workspace", ep \o " Workspace Settings")
    ELSE m

\* The first step of a load by resolver r, for the call record c
\* The RpcClient methods one turn of the VsCode loop of load_from_sources
\* and of load_from_sources_async goes through: rpc_config.is_reachable() is
\* client.ping(), rpc_config.get_providers(..) is client.call("config/get", ..)
LoadRpcForms(ep, reg, up) ==
    IF ep \notin reg THEN {}
    ELSE IF IsReachable(up, ep) THEN {"ping", "call"} ELSE {"ping"}

LoadBegin(c, r) ==
    IF r.config_source = "Native"
    THEN [c EXCEPT !.res = r, !.pc = "load_ws", !.fileProbed = TRUE,
                   !.pmap = LoadNativeUser(files["user"])]
    ELSE [c EXCEPT !.res = r, !.pc = "load_rpc", !.idx = 1]

LoadFromSources(t) ==
    /\ CanStart(t)
    /\ th' = Started(t, LoadBegin(Call(t, "load_from_sources", "", None, <<>>), th[t].res))
    /\ opsLeft' = opsLeft - 1
    /\ UNCHANGED <<providers, files, registry, hostUp, hostSettings, concurrent>>
    /\ UNCHANGED <<secretVars, unitVars>>

\* load_from_sources_async: the same two arms as load_from_sources
LoadFromSourcesAsync(t) ==
    /\ CanStart(t)
    /\ th' = Started(t, LoadBegin(Call(t, "load_from_sources_async", "", None, <<>>), th[t].res))
    /\ opsLeft' = opsLeft - 1
    /\ UNCHANGED <<providers, files, registry, hostUp, hostSettings, concurrent>>
    /\ UNCHANGED <<secretVars, unitVars>>

\* reload_async: self.load_from_sources_async().await
ReloadAsync(t) ==
    /\ CanStart(t)
    /\ th' = Started(t, LoadBegin(Call(t, "reload_async", "", None, <<>>), th[t].res))
    /\ opsLeft' = opsLeft - 1
    /\ UNCHANGED <<providers, files, registry, hostUp, hostSettings, concurrent>>
    /\ UNCHANGED <<secretVars, unitVars>>

\* get_all_providers_async: self.get_all_providers(), a read of the cache
GetAllProvidersAsync(t) ==
    /\ CanStart(t)
    /\ th' = Started(t, Return(Call(t, "get_all_providers_async", "", None, <<>>),
                               Ok(GetAllProviders(providers))))
    /\ opsLeft' = opsLeft - 1
    /\ UNCHANGED <<providers, files, registry, hostUp, hostSettings, concurrent>>
    /\ UNCHANGED <<secretVars, unitVars>>

\* set_config_source: self.config_source = source; self.load_from_sources()
SetConfigSource(t, source) ==
    /\ CanStart(t)
    /\ th' = Started(t, LoadBegin(Call(t, "set_config_source", "", None, <<>>),
                                         [th[t].res EXCEPT !.config_source = source]))
    /\ opsLeft' = opsLeft - 1
    /\ UNCHANGED <<providers, files, registry, hostUp, hostSettings, concurrent>>
    /\ UNCHANGED <<secretVars, unitVars>>

\* set_workspace: self.workspace_path = path; self.load_from_sources()
SetWorkspace(t, path) ==
    /\ CanStart(t)
    /\ th' = Started(t, LoadBegin(Call(t, "set_workspace", "", None, <<>>),
                                         [th[t].res EXCEPT !.workspace_path = path]))
    /\ opsLeft' = opsLeft - 1
    /\ UNCHANGED <<providers, files, registry, hostUp, hostSettings, concurrent>>
    /\ UNCHANGED <<secretVars, unitVars>>

\* The strings the Node binding passes and returns for a config source
S_native == <<"n", "a", "t", "i", "v", "e">>
S_vscode == <<"v", "s", "c", "o", "d", "e">>
S_vs_code == <<"v", "s", "_", "c", "o", "d", "e">>
S_vs_dash_code == <<"v", "s", "-", "c", "o", "d", "e">>

\* ConfigSourcePreference::from_str
ConfigSourceFromStr(s) ==
    IF ToLowercase(s) \in {S_vscode, S_vs_code, S_vs_dash_code} THEN "VsCode" ELSE "Native"

\* The Node binding's get_config_source: the name of self.inner's preference
NapiConfigSource(r) == IF r.config_source = "Native" THEN S_native ELSE S_vscode

\* The Node binding's set_config_source(source): let mut inner =
\* self.inner.clone(), then inner.set_config_source_str(&source) on a
\* blocking thread; self.inner is not assigned
NapiSetConfigSource(t, source) ==
    /\ CanStart(t)
    /\ th' = Started(t, LoadBegin([Call(t, "napi_set_config_source", "", None, source)
                                       EXCEPT !.inner = Some(th[t].res)],
                                  [th[t].res EXCEPT !.config_source =
                                                        ConfigSourceFromStr(source)]))
    /\ opsLeft' = opsLeft - 1
    /\ UNCHANGED <<providers, files, registry, hostUp, hostSettings, concurrent>>
    /\ UNCHANGED <<secretVars, unitVars>>

\* The Node binding's set_config_source_sync(source): self.inner.config_source
\* = from_str(&source), no load
NapiSetConfigSourceSync(t, source) ==
    /\ CanStart(t)
    /\ th' = Started(t, Return([Call(t, "napi_set_config_source_sync", "", None, source)
                                    EXCEPT !.res.config_source = ConfigSourceFromStr(source)],
                               Ok("set")))
    /\ opsLeft' = opsLeft - 1
    /\ UNCHANGED <<providers, files, registry, hostUp, hostSettings, concurrent>>
    /\ UNCHANGED <<secretVars, unitVars>>

\* The Node binding's get_config_source
NapiGetConfigSource(t) ==
    /\ CanStart(t)
    /\ th' = Started(t, Return(Call(t, "napi_get_config_source", "", None, <<>>),
                               Ok(NapiConfigSource(th[t].res))))
    /\ opsLeft' = opsLeft - 1
    /\ UNCHANGED <<providers, files, registry, hostUp, hostSettings, concurrent>>
    /\ UNCHANGED <<secretVars, unitVars>>

LoadWs(t) ==
    LET c == th[t]
    IN /\ c.pc = "load_ws"
       /\ th' = [th EXCEPT ![t] =
            [c EXCEPT !.pc = "load_commit",
                      !.pmap = LoadNativeWorkspace(c.pmap, c.res, files["workspace"])]]
       /\ UNCHANGED <<providers, files, registry, hostUp, hostSettings, opsLeft, concurrent>>
       /\ UNCHANGED <<secretVars, unitVars>>

LoadRpc(t) ==
    LET c == th[t]
        ep == c.res.rpc_endpoints[c.idx]
    IN /\ c.pc = "load_rpc"
       /\ th' = [th EXCEPT ![t] =
            [c EXCEPT !.pc = IF c.idx = Len(c.res.rpc_endpoints) THEN "load_commit" ELSE "load_rpc",
                      !.idx = c.idx + 1,
                      !.rpcProbed = c.rpcProbed \/ ep \in registry,
                      !.rpcForms = c.rpcForms \cup LoadRpcForms(ep, registry, hostUp),
                      !.pmap = LoadRpcEndpoint(c.pmap, ep, registry, hostUp, hostSettings)]]
       /\ UNCHANGED <<providers, files, registry, hostUp, hostSettings, opsLeft, concurrent>>
       /\ UNCHANGED <<secretVars, unitVars>>

\* "Update in-memory state": *providers = providers_map
LoadCommit(t) ==
    LET c == th[t]
    IN /\ c.pc = "load_commit"
       /\ providers' = c.pmap
       /\ th' = [th EXCEPT ![t] = Return(c, Ok("loaded"))]
       /\ UNCHANGED <<files, registry, hostUp, hostSettings, opsLeft, concurrent>>
       /\ UNCHANGED <<secretVars, unitVars>>

----------------------------------------------------------------------------
(* remove_provider *)

\* get_write_destination; for a native destination, the exists() check and
\* the read of the file's providers
RemoveProvider(t, name, scope) ==
    LET c == Call(t, "remove_provider", scope, None, name)
        dest == GetWriteDestination(c.res, registry, scope)
        f == files[scope]
    IN /\ CanStart(t)
       /\ th' = Started(t,
            IF dest.kind = "rpc"
            THEN [c EXCEPT !.pc = "remove_rpc", !.dest = Some(dest)]
            ELSE IF scope = "workspace" /\ ~IsSome(c.res.workspace_path)
            THEN Return([c EXCEPT !.dest = Some(dest)], Err("No workspace path set"))
            ELSE IF ~Exists(f)
            THEN Return([c EXCEPT !.dest = Some(dest), !.fileProbed = TRUE],
                        Ok("Already removed"))
            ELSE [c EXCEPT !.pc = "remove_file_write", !.dest = Some(dest),
                           !.fileProbed = TRUE, !.fcache = Load(f),
                           !.fprov = RetainOthers(FileGetProviders(f), name)])
       /\ opsLeft' = opsLeft - 1
       /\ UNCHANGED <<providers, files, registry, hostUp, hostSettings, concurrent>>
       /\ UNCHANGED <<secretVars, unitVars>>

\* RPC destination: set_provider(name, enabled = false, models = [], api_base = None)
RemoveRpc(t) ==
    LET c == th[t]
        ep == Unwrap(c.dest).endpoint
    IN /\ c.pc = "remove_rpc"
       /\ \/ /\ ep \notin registry
             /\ th' = [th EXCEPT ![t] = Return(c, Err("RPC endpoint '" \o ep \o "' not found"))]
             /\ UNCHANGED hostSettings
          \/ /\ ep \in registry
             /\ \E accepted \in BOOLEAN :
                  IF IsReachable(hostUp, ep) /\ accepted
                  THEN /\ hostSettings' = [hostSettings EXCEPT ![ep][c.scope] =
                              HostSetProvider(@, c.name, FALSE, <<>>, None)]
                       /\ th' = [th EXCEPT ![t] =
                              Return([c EXCEPT !.rpcProbed = TRUE,
                                               !.wrote = @ \cup {"rpc:" \o ep \o ":" \o c.scope}],
                                     Ok(ep \o " " \o ScopeWord(c.scope) \o " Settings"))]
                  ELSE /\ UNCHANGED hostSettings
                       /\ th' = [th EXCEPT ![t] =
                              Return([c EXCEPT !.rpcProbed = TRUE], Err("RPC remove failed"))]
       /\ UNCHANGED <<providers, files, registry, hostUp, opsLeft, concurrent>>
       /\ UNCHANGED <<secretVars, unitVars>>

\* Native destination: import_providers(providers)
RemoveFileWrite(t) ==
    LET c == th[t]
        doc == ImportProviders(c.fcache, files[c.scope], c.fprov)
    IN /\ c.pc = "remove_file_write"
       /\ \E written \in BOOLEAN :
            IF IsSome(doc) /\ written
            THEN /\ files' = [files EXCEPT ![c.scope] = Unwrap(doc)]
                 /\ th' = [th EXCEPT ![t] =
                        Return([c EXCEPT !.wrote = @ \cup {"file:" \o c.scope}],
                               Ok(FilePath(c.scope)))]
            ELSE /\ UNCHANGED files
                 /\ th' = [th EXCEPT ![t] = Return(c, Err("Failed to write config"))]
       /\ UNCHANGED <<providers, registry, hostUp, hostSettings, opsLeft, concurrent>>
       /\ UNCHANGED <<secretVars, unitVars>>

----------------------------------------------------------------------------
(* Reads and previews *)

RECURSIVE Tagged(_, _, _)
\* providers.push(ResolvedProvider { .. }) for each p
Tagged(ps, src, detail) ==
    IF ps = <<>> THEN <<>>
    ELSE <<ResolvedProvider(Head(ps), src, detail)>> \o Tagged(Tail(ps), src, detail)

RECURSIVE ScopeRpcProviders(_, _, _, _, _)
\* get_providers_at_scope: the "RPC user" / "RPC workspace" loop
ScopeRpcProviders(eps, scope, reg, up, settings) ==
    IF eps = <<>> THEN <<>>
    ELSE (IF Head(eps) \in reg /\ IsReachable(up, Head(eps))
          THEN Tagged(settings[Head(eps)][scope], "rpc:" \o Head(eps) \o ":" \o scope,
                      Head(eps) \o " " \o ScopeWord(scope) \o " Settings")
          ELSE <<>>)
         \o ScopeRpcProviders(Tail(eps), scope, reg, up, settings)

\* get_providers_at_scope: the native part
ScopeNativeProviders(r, scope, fs) ==
    IF scope = "user"
    THEN IF Exists(fs["user"])
         THEN Tagged(FileGetProviders(fs["user"]), "native:user", UserDetail) ELSE <<>>
    ELSE IF IsSome(r.workspace_path) /\ Exists(fs["workspace"])
         THEN Tagged(FileGetProviders(fs["workspace"]), "native:workspace", WsDetail)
         ELSE <<>>

\* Whether the loops over rpc_endpoints ping some endpoint
PingsSome(r, reg) == \E i \in 1..Len(r.rpc_endpoints) : r.rpc_endpoints[i] \in reg

GetProvidersAtScope(t, scope) ==
    LET c == Call(t, "get_providers_at_scope", scope, None, <<>>)
    IN /\ CanStart(t)
       /\ th' = Started(t,
            Return([c EXCEPT !.fileProbed = (scope = "user" \/ IsSome(c.res.workspace_path)),
                             !.rpcProbed = PingsSome(c.res, registry)],
                   Ok(ScopeNativeProviders(c.res, scope, files)
                      \o ScopeRpcProviders(c.res.rpc_endpoints, scope, registry, hostUp, hostSettings))))
       /\ opsLeft' = opsLeft - 1
       /\ UNCHANGED <<providers, files, registry, hostUp, hostSettings, concurrent>>
       /\ UNCHANGED <<secretVars, unitVars>>

\* list_sources: (name, available) pairs
ListedSources(r, reg, up, fs) ==
    IF r.config_source = "Native"
    THEN <<<<"native:user", Exists(fs["user"])>>>>
         \o (IF IsSome(r.workspace_path)
             THEN <<<<"native:workspace", Exists(fs["workspace"])>>>> ELSE <<>>)
    ELSE [i \in 1..Len(r.rpc_endpoints) |->
            <<"rpc:" \o r.rpc_endpoints[i] \o ":user",
              r.rpc_endpoints[i] \in reg /\ IsReachable(up, r.rpc_endpoints[i])>>]
         \o [i \in 1..Len(r.rpc_endpoints) |->
            <<"rpc:" \o r.rpc_endpoints[i] \o ":workspace",
              r.rpc_endpoints[i] \in reg /\ IsReachable(up, r.rpc_endpoints[i])>>]

ListSources(t) ==
    LET c == Call(t, "list_sources", "", None, <<>>)
    IN /\ CanStart(t)
       /\ th' = Started(t,
            Return([c EXCEPT !.fileProbed = (c.res.config_source = "Native"),
                             !.rpcProbed = (c.res.config_source = "VsCode"
                                            /\ PingsSome(c.res, registry))],
                   Ok(ListedSources(c.res, registry, hostUp, files))))
       /\ opsLeft' = opsLeft - 1
       /\ UNCHANGED <<providers, files, registry, hostUp, hostSettings, concurrent>>
       /\ UNCHANGED <<secretVars, unitVars>>

\* get_write_destination_info: the destination id
WriteDestinationId(r, reg, scope) ==
    LET dest == GetWriteDestination(r, reg, scope)
    IN IF dest.kind = "rpc" THEN "rpc:" \o dest.endpoint \o ":" \o dest.scope
       ELSE "native:" \o dest.scope

GetWriteDestinationInfo(t, scope) ==
    LET c == Call(t, "get_write_destination_info", scope, None, <<>>)
    IN /\ CanStart(t)
       /\ th' = Started(t, Return(c, Ok(WriteDestinationId(c.res, registry, scope))))
       /\ opsLeft' = opsLeft - 1
       /\ UNCHANGED <<providers, files, registry, hostUp, hostSettings, concurrent>>
       /\ UNCHANGED <<secretVars, unitVars>>

\* get_provider(name), a read of the shared cache
ReadProvider(t, name) ==
    LET c == Call(t, "get_provider", "", None, name)
    IN /\ CanStart(t)
       /\ \E found \in GetProvider(providers, name) :
            th' = Started(t, Return(c, Ok(found)))
       /\ opsLeft' = opsLeft - 1
       /\ UNCHANGED <<providers, files, registry, hostUp, hostSettings, concurrent>>
       /\ UNCHANGED <<secretVars, unitVars>>

\* add_rpc_endpoint
AddRpcEndpoint(t, ep) ==
    /\ CanStart(t)
    /\ Len(th[t].res.rpc_endpoints) < MaxEndpoints
    /\ th' = Started(t,
         Return([Call(t, "add_rpc_endpoint", "", None, <<>>)
                   EXCEPT !.res.rpc_endpoints = Append(@, ep)], Ok("")))
    /\ opsLeft' = opsLeft - 1
    /\ UNCHANGED <<providers, files, registry, hostUp, hostSettings, concurrent>>
    /\ UNCHANGED <<secretVars, unitVars>>

----------------------------------------------------------------------------
(* The host application and the RPC hosts *)

\* The calls in progress see the registry or a host change under them; the
\* outcomes of completed calls are no longer observed
Disturb ==
    [u \in Threads |->
        IF th[u].pc = "idle" THEN IdleThread(th[u].res)
        ELSE [th[u] EXCEPT !.disturbed = TRUE]]

\* rpc::register_rpc_endpoint
RegisterRpcEndpoint(ep) ==
    /\ opsLeft > 0
    /\ ep \notin registry
    /\ registry' = registry \cup {ep}
    /\ opsLeft' = opsLeft - 1
    /\ th' = Disturb
    /\ UNCHANGED <<providers, files, hostUp, hostSettings, concurrent>>
    /\ UNCHANGED <<secretVars, unitVars>>

\* rpc::unregister_rpc_endpoint
UnregisterRpcEndpoint(ep) ==
    /\ opsLeft > 0
    /\ ep \in registry
    /\ registry' = registry \ {ep}
    /\ opsLeft' = opsLeft - 1
    /\ th' = Disturb
    /\ UNCHANGED <<providers, files, hostUp, hostSettings, concurrent>>
    /\ UNCHANGED <<secretVars, unitVars>>

\* A host stops answering (socket removed, process gone)
HostDown(ep) ==
    /\ opsLeft > 0
    /\ hostUp[ep]
    /\ hostUp' = [hostUp EXCEPT ![ep] = FALSE]
    /\ opsLeft' = opsLeft - 1
    /\ th' = Disturb
    /\ UNCHANGED <<providers, files, registry, hostSettings, concurrent>>
    /\ UNCHANGED <<secretVars, unitVars>>

----------------------------------------------------------------------------
(* Secret resolver: strings *)

S_openai == <<"o", "p", "e", "n", "a", "i">>
S_anthropic == <<"a", "n", "t", "h", "r", "o", "p", "i", "c">>
S_gemini == <<"g", "e", "m", "i", "n", "i">>
S_google == <<"g", "o", "o", "g", "l", "e">>
S_mistral == <<"m", "i", "s", "t", "r", "a", "l">>
S_azure == <<"a", "z", "u", "r", "e">>
S_openrouter == <<"o", "p", "e", "n", "r", "o", "u", "t", "e", "r">>
S_ollama == <<"o", "l", "l", "a", "m", "a">>
S_OpenAI == <<"O", "p", "e", "n", "A", "I">>
S_m_k == <<"m", "-", "k">>
V_OPENAI_API_KEY == <<"O", "P", "E", "N", "A", "I", "_", "A", "P", "I", "_", "K", "E", "Y">>
V_ANTHROPIC_API_KEY == <<"A", "N", "T", "H", "R", "O", "P", "I", "C", "_", "A", "P", "I", "_", "K", "E", "Y">>
V_GEMINI_API_KEY == <<"G", "E", "M", "I", "N", "I", "_", "A", "P", "I", "_", "K", "E", "Y">>
V_GOOGLE_API_KEY == <<"G", "O", "O", "G", "L", "E", "_", "A", "P", "I", "_", "K", "E", "Y">>
V_MISTRAL_API_KEY == <<"M", "I", "S", "T", "R", "A", "L", "_", "A", "P", "I", "_", "K", "E", "Y">>
V_AZURE_API_KEY == <<"A", "Z", "U", "R", "E", "_", "A", "P", "I", "_", "K", "E", "Y">>
V_AZURE_OPENAI_API_KEY == <<"A", "Z", "U", "R", "E", "_", "O", "P", "E", "N", "A", "I", "_", "A", "P", "I", "_", "K", "E", "Y">>
V_OPENROUTER_API_KEY == <<"O", "P", "E", "N", "R", "O", "U", "T", "E", "R", "_", "A", "P", "I", "_", "K", "E", "Y">>
V_M_K_API_KEY == <<"M", "_", "K", "_", "A", "P", "I", "_", "K", "E", "Y">>
ApiKeySuffix == <<"_", "A", "P", "I", "_", "K", "E", "Y">>

\* The keys callers resolve
SecretKeys == {S_openai, S_OpenAI, V_OPENAI_API_KEY, S_m_k}

\* The key lists callers pass to get_all_source_info
SecretKeyLists == { <<key>> : key \in SecretKeys } \cup { <<S_m_k, S_openai>> }

\* str::replace("-", "_")
HyphensToUnderscores(s) == [i \in 1..Len(s) |-> IF s[i] = "-" THEN "_" ELSE s[i]]

----------------------------------------------------------------------------
(* Secret backends *)

\* ENV_VAR_MAP.get(lower_key): the variables of a provider, None if unmapped
EnvVarMap(lower_key) ==
    CASE lower_key = S_openai     -> Some(<<V_OPENAI_API_KEY>>)
      [] lower_key = S_anthropic  -> Some(<<V_ANTHROPIC_API_KEY>>)
      [] lower_key = S_gemini     -> Some(<<V_GEMINI_API_KEY, V_GOOGLE_API_KEY>>)
      [] lower_key = S_google     -> Some(<<V_GEMINI_API_KEY, V_GOOGLE_API_KEY>>)
      [] lower_key = S_mistral    -> Some(<<V_MISTRAL_API_KEY>>)
      [] lower_key = S_azure      -> Some(<<V_AZURE_API_KEY, V_AZURE_OPENAI_API_KEY>>)
      [] lower_key = S_openrouter -> Some(<<V_OPENROUTER_API_KEY>>)
      [] lower_key = S_ollama     -> Some(<<>>)
      [] OTHER                    -> None

\* env::var(name) filtered by !value.is_empty()
EnvVarNonEmpty(env, name) ==
    IF name \in DOMAIN env /\ env[name] # "" THEN Some(env[name]) ELSE None

\* The first variable of the list with a non-empty value
FirstNonEmpty(env, names) ==
    LET hits == { i \in 1..Len(names) : IsSome(EnvVarNonEmpty(env, names[i])) }
    IN IF hits = {} THEN None ELSE EnvVarNonEmpty(env, names[FirstIndex(hits)])

\* Variant: only the variable named like the key is read
EnvGet_DirectOnly(env, key) == EnvVarNonEmpty(env, key)

\* EnvSecretStore::get
EnvGet(env, key) ==
    LET mapped == EnvVarMap(ToLowercase(key))
        auto_key == ToUppercase(key) \o ApiKeySuffix
    IN IF IsSome(EnvVarNonEmpty(env, key)) THEN EnvVarNonEmpty(env, key)
       ELSE IF IsSome(mapped) /\ IsSome(FirstNonEmpty(env, Unwrap(mapped)))
       THEN FirstNonEmpty(env, Unwrap(mapped))
       ELSE EnvVarNonEmpty(env, auto_key)

\* try_dotenv_file: the lines are the (name, value) pairs that trimming,
\* split_once('=') and the stripping of quotes yield
TryDotenvFile(file, key) ==
    LET env_var_name == HyphensToUnderscores(ToUppercase(key)) \o ApiKeySuffix
        lines == IF IsSome(file) THEN Unwrap(file) ELSE <<>>
        hits == { i \in 1..Len(lines) : lines[i].k = env_var_name /\ lines[i].v # "" }
    IN IF hits = {} THEN None ELSE Some(lines[FirstIndex(hits)].v)

\* KeychainSecretStore::get: the password stored for key, empty or not
KeychainGet(kc, key) == IF key \in DOMAIN kc.entries THEN Some(kc.entries[key]) ELSE None

\* RpcSecretStore::get / get_async: None on any call error, else result.value
RpcSecretGet(up, secrets, ep, key) ==
    IF up[ep] /\ key \in DOMAIN secrets[ep] THEN Some(secrets[ep][key]) ELSE None

\* RpcSecretStore::is_reachable and is_reachable_async:
\* ping().unwrap_or(false), true when the host answers and reports ok
RpcSecretIsReachable(ep) == IsReachable(hostUp, ep) /\ hostReady[ep]

\* SecretStore::name of the stores a resolver keeps in `sources`
StoreName(store) ==
    CASE store = "EnvSecretStore"      -> "env"
      [] store = "KeychainSecretStore" -> "keychain"

----------------------------------------------------------------------------
(* Secret resolver *)

\* UnifiedSecretResolver
SecretResolver(sources, eps, store, env, dotenv) ==
    [sources |-> sources, rpc_endpoints |-> eps, secrets_store |-> store,
     check_environment |-> env, check_dotenv |-> dotenv]

\* UnifiedSecretResolver::new
NewSecretResolver ==
    SecretResolver(<<"EnvSecretStore", "KeychainSecretStore">>, <<"vscode">>,
                   "Keychain", TRUE, FALSE)

\* UnifiedSecretResolver::with_config
WithConfig(include_env, include_keychain, rpc_endpoints) ==
    SecretResolver((IF include_env THEN <<"EnvSecretStore">> ELSE <<>>)
                   \o (IF include_keychain THEN <<"KeychainSecretStore">> ELSE <<>>),
                   rpc_endpoints, "Keychain", include_env, FALSE)

\* ResolvedSecret
ResolvedSecret(value, source, detail) ==
    [value |-> value, source |-> source, source_detail |-> detail]

\* One access to a backend made by a call
Probe(kind, name, call) == [kind |-> kind, name |-> name, call |-> call]

\* What a stage of resolve yields: a hit or None, and the accesses it made
Stage(hit, probes) == [hit |-> hit, probes |-> probes]

\* `return Some(..)` at the first hit, else go on with the next stage
OrElse(a, b) == IF IsSome(a.hit) THEN a ELSE Stage(b.hit, a.probes \o b.probes)

\* "Check environment variables if enabled"
EnvStage(r, key) ==
    IF ~r.check_environment THEN Stage(None, <<>>)
    ELSE LET value == EnvGet(environ, key)
         IN Stage(IF IsSome(value)
                  THEN Some(ResolvedSecret(Unwrap(value), "environment",
                                           <<"Environment variable $",
                                             ToUppercase(key) \o ApiKeySuffix>>))
                  ELSE None,
                  <<Probe("environment", "", "get")>>)

\* "Check .env files if enabled"
DotenvStage(r, key) ==
    IF ~r.check_dotenv THEN Stage(None, <<>>)
    ELSE LET value == TryDotenvFile(dotenvFile, key)
         IN Stage(IF IsSome(value)
                  THEN Some(ResolvedSecret(Unwrap(value), "dotenv",
                                           <<".env file", ToUppercase(key) \o ApiKeySuffix>>))
                  ELSE None,
                  <<Probe("dotenv", "", "read")>>)

\* One endpoint of the SecretsStore::VsCode loop.  resolve calls get at
\* once; resolve_async pings first and calls get_async if the ping is ok
RpcEndpointStage(ep, key, async) ==
    IF ep \notin registry THEN Stage(None, <<>>)
    ELSE IF async /\ ~RpcSecretIsReachable(ep)
    THEN Stage(None, <<Probe("rpc", ep, "ping")>>)
    ELSE Stage(LET value == RpcSecretGet(hostUp, hostSecrets, ep, key)
               IN IF IsSome(value)
                  THEN Some(ResolvedSecret(Unwrap(value), "rpc:" \o ep, ep \o " SecretStorage"))
                  ELSE None,
               (IF async THEN <<Probe("rpc", ep, "ping")>> ELSE <<>>)
               \o <<Probe("rpc", ep, "get")>>)

RECURSIVE RpcStage_StopAtUnreachable(_, _, _)
\* Variant: the loop ends at the first registered endpoint that does not answer
RpcStage_StopAtUnreachable(eps, key, async) ==
    IF eps = <<>> THEN Stage(None, <<>>)
    ELSE IF Head(eps) \in registry /\ ~RpcSecretIsReachable(Head(eps))
    THEN RpcEndpointStage(Head(eps), key, async)
    ELSE OrElse(RpcEndpointStage(Head(eps), key, async),
                RpcStage_StopAtUnreachable(Tail(eps), key, async))

RECURSIVE RpcStage(_, _, _)
\* `for endpoint_name in &self.rpc_endpoints`
RpcStage(eps, key, async) ==
    IF eps = <<>> THEN Stage(None, <<>>)
    ELSE OrElse(RpcEndpointStage(Head(eps), key, async), RpcStage(Tail(eps), key, async))

\* SecretsStore::Keychain: is_available, then get
KeychainStage(key) ==
    IF ~keychain.available THEN Stage(None, <<Probe("keychain", "", "is_available")>>)
    ELSE Stage(IF IsSome(KeychainGet(keychain, key))
               THEN Some(ResolvedSecret(Unwrap(KeychainGet(keychain, key)), "keychain",
                                        "System Keychain"))
               ELSE None,
               <<Probe("keychain", "", "is_available"), Probe("keychain", "", "get")>>)

\* Variant: the keychain is consulted after the endpoints, whatever the preference
PrimaryStage_Both(r, key, async) ==
    OrElse(RpcStage(r.rpc_endpoints, key, async), KeychainStage(key))

\* "Check primary store based on user preference"
PrimaryStage(r, key, async) ==
    IF r.secrets_store = "VsCode" THEN RpcStage(r.rpc_endpoints, key, async)
    ELSE KeychainStage(key)

\* store.get(key) of a store kept in `sources`
StoreGet(store, key) ==
    CASE store = "EnvSecretStore"      -> EnvGet(environ, key)
      [] store = "KeychainSecretStore" -> KeychainGet(keychain, key)

RECURSIVE FallbackStage(_, _)
\* `for store in &self.sources`, skipping the names "environment" and "keychain"
FallbackStage(sources, key) ==
    IF sources = <<>> THEN Stage(None, <<>>)
    ELSE IF StoreName(Head(sources)) = "environment" \/ StoreName(Head(sources)) = "keychain"
    THEN FallbackStage(Tail(sources), key)
    ELSE OrElse(Stage(LET value == StoreGet(Head(sources), key)
                      IN IF IsSome(value)
                         THEN Some(ResolvedSecret(Unwrap(value), StoreName(Head(sources)),
                                                  StoreName(Head(sources))))
                         ELSE None,
                      <<Probe("fallback", StoreName(Head(sources)), "get")>>),
                FallbackStage(Tail(sources), key))

\* resolve (async = FALSE) and resolve_async (async = TRUE)
Resolve(r, key, async) ==
    OrElse(EnvStage(r, key),
           OrElse(DotenvStage(r, key),
                  OrElse(PrimaryStage(r, key, async), FallbackStage(r.sources, key))))

\* get_source_info: self.resolve(key).map(|r| (r.source, r.source_detail))
GetSourceInfo(r, key) ==
    LET found == Resolve(r, key, FALSE).hit
    IN IF IsSome(found) THEN Some(<<Unwrap(found).source, Unwrap(found).source_detail>>)
       ELSE None

\* called: the last call was resolve or resolve_async, of which key, async
\* and result speak; op names the last call whatever it was
NoOutcome ==
    [called |-> FALSE, op |-> "none", key |-> <<>>, async |-> FALSE, result |-> None,
     probes |-> <<>>]

Outcome(key, async, stage) ==
    [called |-> TRUE, op |-> IF async THEN "resolve_async" ELSE "resolve",
     key |-> key, async |-> async, result |-> stage.hit, probes |-> stage.probes]

\* The outcome of a call other than resolve: its arguments, what it returned
\* and the accesses it made
OtherOutcome(op, key, result, probes) ==
    [called |-> FALSE, op |-> op, key |-> key, async |-> FALSE, result |-> result,
     probes |-> probes]

CallResolve(key) ==
    /\ sout' = Outcome(key, FALSE, Resolve(sres, key, FALSE))
    /\ UNCHANGED <<configVars, unitVars, registry, hostUp, hostReady, environ, dotenvFile, keychain, hostSecrets, sres>>

CallResolveAsync(key) ==
    /\ sout' = Outcome(key, TRUE, Resolve(sres, key, TRUE))
    /\ UNCHANGED <<configVars, unitVars, registry, hostUp, hostReady, environ, dotenvFile, keychain, hostSecrets, sres>>

RECURSIVE FindReachable(_)
\* get_all_source_info: rpc_endpoints.iter().find_map(..), the first name that
\* is registered and answers the ping, and the pings made on the way
FindReachable(eps) ==
    IF eps = <<>> THEN Stage(None, <<>>)
    ELSE IF Head(eps) \notin registry THEN FindReachable(Tail(eps))
    ELSE IF RpcSecretIsReachable(Head(eps))
    THEN Stage(Some(Head(eps)), <<Probe("rpc", Head(eps), "ping")>>)
    ELSE OrElse(Stage(None, <<Probe("rpc", Head(eps), "ping")>>), FindReachable(Tail(eps)))

\* get_all_source_info: "Pre-check store availability once based on preference"
RpcAvailableEndpoint(r) ==
    IF r.secrets_store = "VsCode" THEN FindReachable(r.rpc_endpoints) ELSE Stage(None, <<>>)

\* get_all_source_info: keychain_available, is_available being called only
\* in Keychain mode
KeychainAvailable(r) ==
    IF r.secrets_store = "Keychain"
    THEN Stage(IF keychain.available THEN Some(TRUE) ELSE None,
               <<Probe("keychain", "", "is_available")>>)
    ELSE Stage(None, <<>>)

\* get_all_source_info: the body of `for key in keys`
SourceInfoOfKey(r, key, rpc_ep, keychain_available) ==
    LET env_key == HyphensToUnderscores(ToUppercase(key)) \o ApiKeySuffix
        env == IF r.check_environment
               THEN Stage(IF IsSome(EnvGet(environ, key))
                          THEN Some(<<"environment", <<"Environment variable: ", env_key>>, env_key>>)
                          ELSE None,
                          <<Probe("environment", "", "get")>>)
               ELSE Stage(None, <<>>)
        dotenv == IF r.check_dotenv
                  THEN Stage(IF IsSome(TryDotenvFile(dotenvFile, key))
                             THEN Some(<<"dotenv", <<".env file (", env_key, ")">>, env_key>>)
                             ELSE None,
                             <<Probe("dotenv", "", "read")>>)
                  ELSE Stage(None, <<>>)
        primary == IF r.secrets_store = "VsCode"
                   THEN IF IsSome(rpc_ep)
                        THEN Stage(IF IsSome(RpcSecretGet(hostUp, hostSecrets, Unwrap(rpc_ep), key))
                                   THEN Some(<<"secretStorage", Unwrap(rpc_ep) \o " SecretStorage", <<>>>>)
                                   ELSE None,
                                   <<Probe("rpc", Unwrap(rpc_ep), "get")>>)
                        ELSE Stage(None, <<>>)
                   ELSE IF keychain_available
                        THEN Stage(IF IsSome(KeychainGet(keychain, key))
                                   THEN Some(<<"keychain", "System Keychain", <<>>>>)
                                   ELSE None,
                                   <<Probe("keychain", "", "get")>>)
                        ELSE Stage(None, <<>>)
    IN OrElse(env, OrElse(dotenv, primary))

RECURSIVE SourceInfoLoop(_, _, _, _, _)
\* get_all_source_info: `for key in keys { .. results.insert(key, ..) }`
SourceInfoLoop(r, keys, rpc_ep, keychain_available, acc) ==
    IF keys = <<>> THEN acc
    ELSE LET one == SourceInfoOfKey(r, Head(keys), rpc_ep, keychain_available)
         IN SourceInfoLoop(r, Tail(keys), rpc_ep, keychain_available,
                           Stage(MapInsert(acc.hit, Head(keys), one.hit),
                                 acc.probes \o one.probes))

\* Variant: the reachability and availability checks are made again when
\* there is a second key
GetAllSourceInfo_ProbePerKey(r, keys) ==
    LET rpc == RpcAvailableEndpoint(r)
        kc == KeychainAvailable(r)
        once == rpc.probes \o kc.probes
        got == SourceInfoLoop(r, keys, rpc.hit, IsSome(kc.hit), Stage(EmptyMap, once))
    IN Stage(got.hit, IF Len(keys) > 1 THEN got.probes \o once ELSE got.probes)

\* get_all_source_info: the map it returns and the accesses it makes
GetAllSourceInfo(r, keys) ==
    LET rpc == RpcAvailableEndpoint(r)
        kc == KeychainAvailable(r)
    IN SourceInfoLoop(r, keys, rpc.hit, IsSome(kc.hit),
                      Stage(EmptyMap, rpc.probes \o kc.probes))

\* UnifiedSecretResolver::list_sources: (name, available) pairs
SecretListSources(r) ==
    LET head == (IF r.check_environment THEN <<<<"environment", TRUE>>>> ELSE <<>>)
                \o (IF r.check_dotenv THEN <<<<"dotenv", TRUE>>>> ELSE <<>>)
        eps == r.rpc_endpoints
        regd == SelectSeqBy(eps, { i \in 1..Len(eps) : eps[i] \in registry })
    IN IF r.secrets_store = "VsCode"
       THEN Stage(head \o [i \in 1..Len(eps) |->
                              <<"rpc:" \o eps[i],
                                eps[i] \in registry /\ RpcSecretIsReachable(eps[i])>>],
                  [i \in 1..Len(regd) |-> Probe("rpc", regd[i], "ping")])
       ELSE Stage(head \o <<<<"keychain", keychain.available>>>>,
                  <<Probe("keychain", "", "is_available")>>)

CallGetAllSourceInfo(keys) ==
    /\ sout' = LET got == GetAllSourceInfo(sres, keys)
               IN OtherOutcome("get_all_source_info", keys, got.hit, got.probes)
    /\ UNCHANGED <<configVars, unitVars, registry, hostUp, hostReady, environ, dotenvFile, keychain, hostSecrets, sres>>

CallListSources ==
    /\ sout' = LET got == SecretListSources(sres)
               IN OtherOutcome("list_sources", <<>>, got.hit, got.probes)
    /\ UNCHANGED <<configVars, unitVars, registry, hostUp, hostReady, environ, dotenvFile, keychain, hostSecrets, sres>>

\* The setters: the resolver changes, the outcome of the call before it is
\* no longer observed

\* set_check_environment
SetCheckEnvironment(check) ==
    /\ sres' = [sres EXCEPT !.check_environment = check]
    /\ sout' = NoOutcome
    /\ UNCHANGED <<configVars, unitVars, registry, hostUp, hostReady, environ, dotenvFile, keychain, hostSecrets>>

\* set_check_dotenv
SetCheckDotenv(check) ==
    /\ sres' = [sres EXCEPT !.check_dotenv = check]
    /\ sout' = NoOutcome
    /\ UNCHANGED <<configVars, unitVars, registry, hostUp, hostReady, environ, dotenvFile, keychain, hostSecrets>>

\* set_secrets_store
SetSecretsStore(store) ==
    /\ sres' = [sres EXCEPT !.secrets_store = store]
    /\ sout' = NoOutcome
    /\ UNCHANGED <<configVars, unitVars, registry, hostUp, hostReady, environ, dotenvFile, keychain, hostSecrets>>

\* UnifiedSecretResolver::add_rpc_endpoint
SecretAddRpcEndpoint(name) ==
    /\ Len(sres.rpc_endpoints) < MaxEndpoints
    /\ sres' = [sres EXCEPT !.rpc_endpoints = Append(@, name)]
    /\ sout' = NoOutcome
    /\ UNCHANGED <<configVars, unitVars, registry, hostUp, hostReady, environ, dotenvFile, keychain, hostSecrets>>

----------------------------------------------------------------------------
(* Secret resolver: writes *)

D_auto == <<"a", "u", "t", "o">>
D_keychain == <<"k", "e", "y", "c", "h", "a", "i", "n">>
D_vscode == <<"v", "s", "c", "o", "d", "e">>
D_alt == <<"a", "l", "t">>
D_rpc_colon == <<"r", "p", "c", ":">>

\* The endpoint names, spelled out
EndpointChars == [ep \in EndpointNames |-> IF ep = "vscode" THEN D_vscode ELSE D_alt]

\* str::strip_prefix
StripPrefix(s, prefix) ==
    IF Len(s) >= Len(prefix) /\ SubSeq(s, 1, Len(prefix)) = prefix
    THEN Some(SubSeq(s, Len(prefix) + 1, Len(s)))
    ELSE None

\* get_rpc_endpoint(name): the registered endpoint of that name, if any
GetRpcEndpoint(name) ==
    LET hits == { ep \in registry : EndpointChars[ep] = name }
    IN IF hits = {} THEN None ELSE Some(CHOOSE ep \in hits : TRUE)

\* What a write call does: its result, the accesses it made, and the
\* stores as it leaves them
Written(result, probes, kc, hs) ==
    [result |-> result, probes |-> probes, keychain |-> kc, hostSecrets |-> hs]

\* A map without the entry of key k
MapRemove(m, k) == [x \in (DOMAIN m) \ {k} |-> m[x]]

\* Variant: the first registered endpoint that also answers a ping is chosen
SecretGetWriteDestination_FirstReachable(r) ==
    IF r.secrets_store = "VsCode"
    THEN LET hit == FindReachable(r.rpc_endpoints).hit
         IN Stage(IF IsSome(hit) THEN [kind |-> "Rpc", name |-> Unwrap(hit)]
                  ELSE [kind |-> "None", name |-> ""], <<>>)
    ELSE Stage([kind |-> IF keychain.available THEN "Keychain" ELSE "None", name |-> ""],
               <<Probe("keychain", "", "is_available")>>)

\* UnifiedSecretResolver::get_write_destination: the SecretWriteDestination
\* and the accesses made to find it
SecretGetWriteDestination(r) ==
    IF r.secrets_store = "VsCode"
    THEN LET hits == { i \in 1..Len(r.rpc_endpoints) : r.rpc_endpoints[i] \in registry }
         IN Stage(IF hits # {}
                  THEN [kind |-> "Rpc", name |-> r.rpc_endpoints[FirstIndex(hits)]]
                  ELSE [kind |-> "None", name |-> ""], <<>>)
    ELSE Stage([kind |-> IF keychain.available THEN "Keychain" ELSE "None", name |-> ""],
               <<Probe("keychain", "", "is_available")>>)

\* store, preferred_store == "keychain": is_available, then
\* KeychainSecretStore::store, which the credential store accepts or not
StoreKeychain(key, value) ==
    IF ~keychain.available
    THEN { Written(Err(<<"System keychain not available">>),
                   <<Probe("keychain", "", "is_available")>>, keychain, hostSecrets) }
    ELSE { Written(Ok(<<"System Keychain">>),
                   <<Probe("keychain", "", "is_available"), Probe("keychain", "", "store")>>,
                   [keychain EXCEPT !.entries = MapInsert(@, key, value)], hostSecrets),
           Written(Err(<<"Failed to store in keychain">>),
                   <<Probe("keychain", "", "is_available"), Probe("keychain", "", "store")>>,
                   keychain, hostSecrets) }

\* store, preferred_store == "rpc:<endpoint_name>"
StoreRpc(key, value, endpoint_name) ==
    LET endpoint == GetRpcEndpoint(endpoint_name)
        ep == Unwrap(endpoint)
    IN IF ~IsSome(endpoint)
       THEN { Written(Err(<<"RPC endpoint '", endpoint_name, "' not registered">>),
                      <<>>, keychain, hostSecrets) }
       ELSE IF ~RpcSecretIsReachable(ep)
       THEN { Written(Err(<<"RPC endpoint '", endpoint_name, "' not reachable">>),
                      <<Probe("rpc", ep, "ping")>>, keychain, hostSecrets) }
       ELSE { Written(Ok(<<ep \o " SecretStorage">>),
                      <<Probe("rpc", ep, "ping"), Probe("rpc", ep, "store")>>,
                      keychain, [hostSecrets EXCEPT ![ep] = MapInsert(@, key, value)]),
              Written(Err(<<"Store operation failed">>),
                      <<Probe("rpc", ep, "ping"), Probe("rpc", ep, "store")>>,
                      keychain, hostSecrets) }

\* A variant that sends every other destination string to the keychain
StoreNamed_DefaultKeychain(key, value, preferred_store) ==
    IF preferred_store = D_vscode THEN StoreRpc(key, value, D_vscode)
    ELSE IF IsSome(StripPrefix(preferred_store, D_rpc_colon))
    THEN StoreRpc(key, value, Unwrap(StripPrefix(preferred_store, D_rpc_colon)))
    ELSE StoreKeychain(key, value)

\* store with a preferred_store other than "auto"
StoreNamed(key, value, preferred_store) ==
    IF preferred_store = D_vscode THEN StoreRpc(key, value, D_vscode)
    ELSE IF preferred_store = D_keychain THEN StoreKeychain(key, value)
    ELSE IF IsSome(StripPrefix(preferred_store, D_rpc_colon))
    THEN StoreRpc(key, value, Unwrap(StripPrefix(preferred_store, D_rpc_colon)))
    ELSE { Written(Err(<<"Unknown store: ", preferred_store>>), <<>>, keychain, hostSecrets) }

\* The outcomes o of a routed call, after the accesses of the routing
AfterRouting(probes, outcomes) ==
    { [o EXCEPT !.probes = probes \o @] : o \in outcomes }

\* UnifiedSecretResolver::store
SecretStore(r, key, value, preferred_store) ==
    IF preferred_store = D_auto
    THEN LET dest == SecretGetWriteDestination(r)
         IN IF dest.hit.kind = "Rpc"
            THEN AfterRouting(dest.probes,
                    StoreNamed(key, value, D_rpc_colon \o EndpointChars[dest.hit.name]))
            ELSE IF dest.hit.kind = "Keychain"
            THEN AfterRouting(dest.probes, StoreNamed(key, value, D_keychain))
            ELSE { Written(Err(<<"No secret store available (no RPC endpoint and keychain unavailable)">>),
                           dest.probes, keychain, hostSecrets) }
    ELSE StoreNamed(key, value, preferred_store)

\* delete, preferred_store == "keychain": KeychainSecretStore::delete
DeleteKeychain(key) ==
    IF ~keychain.available
    THEN { Written(Err(<<"Failed to create keychain entry">>),
                   <<Probe("keychain", "", "delete")>>, keychain, hostSecrets) }
    ELSE { Written(Ok(<<"System Keychain">>), <<Probe("keychain", "", "delete")>>,
                   [keychain EXCEPT !.entries = MapRemove(@, key)], hostSecrets),
           Written(Err(<<"Failed to delete from keychain">>), <<Probe("keychain", "", "delete")>>,
                   keychain, hostSecrets) }

\* delete, preferred_store == "rpc:<endpoint_name>"
DeleteRpc(key, endpoint_name) ==
    LET endpoint == GetRpcEndpoint(endpoint_name)
        ep == Unwrap(endpoint)
    IN IF ~IsSome(endpoint)
       THEN { Written(Err(<<"RPC endpoint '", endpoint_name, "' not registered">>),
                      <<>>, keychain, hostSecrets) }
       ELSE IF ~IsReachable(hostUp, ep)
       THEN { Written(Err(<<"RPC error">>), <<Probe("rpc", ep, "delete")>>, keychain, hostSecrets) }
       ELSE { Written(Ok(<<ep \o " SecretStorage">>), <<Probe("rpc", ep, "delete")>>,
                      keychain, [hostSecrets EXCEPT ![ep] = MapRemove(@, key)]),
              Written(Err(<<"Delete operation failed">>), <<Probe("rpc", ep, "delete")>>,
                      keychain, hostSecrets) }

\* delete with a preferred_store other than "auto"
DeleteNamed(key, preferred_store) ==
    IF preferred_store = D_vscode THEN DeleteRpc(key, D_vscode)
    ELSE IF preferred_store = D_keychain THEN DeleteKeychain(key)
    ELSE IF IsSome(StripPrefix(preferred_store, D_rpc_colon))
    THEN DeleteRpc(key, Unwrap(StripPrefix(preferred_store, D_rpc_colon)))
    ELSE { Written(Err(<<"Unknown store: ", preferred_store>>), <<>>, keychain, hostSecrets) }

\* UnifiedSecretResolver::delete
SecretDelete(r, key, preferred_store) ==
    IF preferred_store = D_auto
    THEN LET dest == SecretGetWriteDestination(r)
         IN IF dest.hit.kind = "Rpc"
            THEN AfterRouting(dest.probes,
                    DeleteNamed(key, D_rpc_colon \o EndpointChars[dest.hit.name]))
            ELSE IF dest.hit.kind = "Keychain"
            THEN AfterRouting(dest.probes, DeleteNamed(key, D_keychain))
            ELSE { Written(Err(<<"No secret store available">>), dest.probes, keychain, hostSecrets) }
    ELSE DeleteNamed(key, preferred_store)

\* A variant that names the keychain whenever it is available
SecretWriteDestinationId_KeychainFirst(r) ==
    LET dest == SecretGetWriteDestination(r).hit
    IN IF keychain.available THEN "keychain"
       ELSE IF dest.kind = "Rpc" THEN "rpc:" \o dest.name
       ELSE "none"

\* UnifiedSecretResolver::get_write_destination_info: the destination id
SecretWriteDestinationId(r) ==
    LET dest == SecretGetWriteDestination(r).hit
    IN IF dest.kind = "Rpc" THEN "rpc:" \o dest.name
       ELSE IF dest.kind = "Keychain" THEN "keychain"
       ELSE "none"

\* The outcome of a write call: as OtherOutcome, with the value and the
\* destination string given
WriteOutcome(op, key, value, preferred_store, o) ==
    [called |-> FALSE, op |-> op, key |-> key, async |-> FALSE, result |-> o.result,
     probes |-> o.probes, value |-> value, preferred_store |-> preferred_store]

CallStore(key, value, preferred_store) ==
    /\ \E o \in SecretStore(sres, key, value, preferred_store) :
          /\ sout' = WriteOutcome("store", key, value, preferred_store, o)
          /\ keychain' = o.keychain
          /\ hostSecrets' = o.hostSecrets
    /\ UNCHANGED <<configVars, unitVars, registry, hostUp, hostReady, environ, dotenvFile, sres>>

CallDelete(key, preferred_store) ==
    /\ \E o \in SecretDelete(sres, key, preferred_store) :
          /\ sout' = WriteOutcome("delete", key, "", preferred_store, o)
          /\ keychain' = o.keychain
          /\ hostSecrets' = o.hostSecrets
    /\ UNCHANGED <<configVars, unitVars, registry, hostUp, hostReady, environ, dotenvFile, sres>>

CallSecretWriteDestinationInfo ==
    /\ sout' = OtherOutcome("get_write_destination_info", <<>>,
                            Some(SecretWriteDestinationId(sres)),
                            SecretGetWriteDestination(sres).probes)
    /\ UNCHANGED <<configVars, unitVars, registry, hostUp, hostReady, environ, dotenvFile, keychain, hostSecrets, sres>>

(* Config stores: MemoryConfigProvider and FileConfigProvider *)

\* config::traits::ConfigError
ProviderNotFound(name) == <<"ProviderNotFound", name>>
ProviderExists(name) == <<"ProviderExists", name>>
OtherError(msg) == <<"Other", <<msg>>>>
IoError == <<"Io", <<>>>>

\* The record of a call on a config store and of what it returned
StoreCall(store, op, name, config, result) ==
    [store |-> store, op |-> op, name |-> name, config |-> config, result |-> result]
NoStoreCall == StoreCall("none", "none", <<>>, None, None)

\* What a call leaves: its result and the provider list
Updated(result, ps) == [result |-> result, providers |-> ps]

\* iter().position(|p| p.name.to_lowercase() == name_lower)
Position(ps, name) ==
    FirstIndex({ i \in 1..Len(ps) : ToLowercase(ps[i].name) = ToLowercase(name) })

\* A variant of update_provider that refuses a config whose name belongs to
\* another entry
StoreUpdateProvider_KeepUnique(ps, name, config) ==
    LET pos == Position(ps, name)
    IN IF pos # 0 /\ Position(ps, config.name) \in {0, pos}
       THEN Updated(Ok(<<>>), [ps EXCEPT ![pos] = config])
       ELSE Updated(Err(ProviderNotFound(name)), ps)

\* update_provider on the provider list
StoreUpdateProvider(ps, name, config) ==
    LET pos == Position(ps, name)
    IN IF pos # 0
       THEN Updated(Ok(<<>>), [ps EXCEPT ![pos] = config])
       ELSE Updated(Err(ProviderNotFound(name)), ps)

\* A variant of add_provider that compares the names as written
StoreAddProvider_Exact(ps, config) ==
    IF \E i \in 1..Len(ps) : ps[i].name = config.name
    THEN Updated(Err(ProviderExists(config.name)), ps)
    ELSE Updated(Ok(<<>>), Append(ps, config))

\* add_provider on the provider list
StoreAddProvider(ps, config) ==
    IF \E i \in 1..Len(ps) : ToLowercase(ps[i].name) = ToLowercase(config.name)
    THEN Updated(Err(ProviderExists(config.name)), ps)
    ELSE Updated(Ok(<<>>), Append(ps, config))

\* remove_provider on the provider list: retain, then compare the lengths
StoreRemoveProvider(ps, name) ==
    LET kept == SelectSeqBy(ps, { i \in 1..Len(ps) :
                                    ToLowercase(ps[i].name) # ToLowercase(name) })
    IN IF Len(kept) = Len(ps)
       THEN Updated(Err(ProviderNotFound(name)), ps)
       ELSE Updated(Ok(<<>>), kept)

MemoryUpdateProvider(name, config) ==
    LET u == StoreUpdateProvider(mem, name, config)
    IN /\ mem' = u.providers
       /\ cout' = StoreCall("memory", "update_provider", name, Some(config), u.result)
       /\ UNCHANGED <<configVars, secretVars, registry, hostUp, wireVars, backendVars, fcp, registryVars, clientVars>>

MemoryAddProvider(config) ==
    LET u == StoreAddProvider(mem, config)
    IN /\ Len(mem) < MaxProviders
       /\ mem' = u.providers
       /\ cout' = StoreCall("memory", "add_provider", config.name, Some(config), u.result)
       /\ UNCHANGED <<configVars, secretVars, registry, hostUp, wireVars, backendVars, fcp, registryVars, clientVars>>

MemoryRemoveProvider(name) ==
    LET u == StoreRemoveProvider(mem, name)
    IN /\ mem' = u.providers
       /\ cout' = StoreCall("memory", "remove_provider", name, None, u.result)
       /\ UNCHANGED <<configVars, secretVars, registry, hostUp, wireVars, backendVars, fcp, registryVars, clientVars>>

\* The rest of a FileConfigProvider call once get_config has run: f is the
\* provider, got what get_config returned, u the edit of the list.  A
\* failed edit returns its error; otherwise save writes the document and
\* sets the cache, or fails and leaves both.
FileOutcomes(f, got, u) ==
    LET doc == Unwrap(got)
        loaded == [f EXCEPT !.cache = got]
        new == [providers |-> u.providers, defaults |-> doc.defaults]
    IN IF ~Unwrap(u.result).ok
       THEN { [result |-> u.result, fcp |-> loaded] }
       ELSE { [result |-> Ok(<<>>),
               fcp |-> [disk |-> ConfigFile(new.providers, new.defaults), cache |-> Some(new)]],
              [result |-> Err(IoError), fcp |-> loaded] }

\* get_config failed: the `?` returns its error
LoadFailed(f) == { [result |-> Err(OtherError("Failed to parse YAML")), fcp |-> f] }

FileUpdateProvider(name, config) ==
    LET got == GetConfig(fcp.cache, fcp.disk)
    IN /\ \E o \in (IF IsSome(got)
                    THEN FileOutcomes(fcp, got,
                            StoreUpdateProvider(Unwrap(got).providers, name, config))
                    ELSE LoadFailed(fcp)) :
             /\ fcp' = o.fcp
             /\ cout' = StoreCall("file", "update_provider", name, Some(config), o.result)
       /\ UNCHANGED <<configVars, secretVars, registry, hostUp, wireVars, backendVars, mem, registryVars, clientVars>>

FileAddProvider(config) ==
    LET got == GetConfig(fcp.cache, fcp.disk)
    IN /\ IsSome(got) => Len(Unwrap(got).providers) < MaxProviders
       /\ \E o \in (IF IsSome(got)
                    THEN FileOutcomes(fcp, got, StoreAddProvider(Unwrap(got).providers, config))
                    ELSE LoadFailed(fcp)) :
             /\ fcp' = o.fcp
             /\ cout' = StoreCall("file", "add_provider", config.name, Some(config), o.result)
       /\ UNCHANGED <<configVars, secretVars, registry, hostUp, wireVars, backendVars, mem, registryVars, clientVars>>

FileRemoveProvider(name) ==
    LET got == GetConfig(fcp.cache, fcp.disk)
    IN /\ \E o \in (IF IsSome(got)
                    THEN FileOutcomes(fcp, got, StoreRemoveProvider(Unwrap(got).providers, name))
                    ELSE LoadFailed(fcp)) :
             /\ fcp' = o.fcp
             /\ cout' = StoreCall("file", "remove_provider", name, None, o.result)
       /\ UNCHANGED <<configVars, secretVars, registry, hostUp, wireVars, backendVars, mem, registryVars, clientVars>>

\* ConfigProvider::get_providers of the FileConfigProvider f, without the
\* source tag: unwrap_or_default of get_config
FileProviders(f) ==
    IF IsSome(GetConfig(f.cache, f.disk)) THEN Unwrap(GetConfig(f.cache, f.disk)).providers
    ELSE <<>>

----------------------------------------------------------------------------
(* RpcEndpointRegistry *)

\* rpc::endpoint::RpcEndpoint
RpcEndpoint(name, socket_path) ==
    [name |-> name, socket_path |-> socket_path, auth_token |-> "token",
     capabilities |-> <<"secrets">>]

\* The record of a call on the registry and of what it returned
RegistryCall(op, name, result) == [op |-> op, name |-> name, result |-> result]
NoRegistryCall == RegistryCall("none", "", None)

\* A register or unregister call, as logged
RegistryEvent(op, name, endpoint) == [op |-> op, name |-> name, endpoint |-> endpoint]

\* A variant of register that keeps an entry already present
RegistryRegister_KeepExisting(m, endpoint) ==
    IF endpoint.name \in DOMAIN m THEN m ELSE MapInsert(m, endpoint.name, endpoint)

\* register: HashMap::insert under the endpoint's name
RegistryRegister(m, endpoint) == MapInsert(m, endpoint.name, endpoint)

\* get: HashMap::get(name).cloned()
RegistryGet(m, name) == IF name \in DOMAIN m THEN Some(m[name]) ELSE None

\* list: keys().cloned().collect(), in any iteration order of the HashMap
RegistryList(m) ==
    { l \in [1..Cardinality(DOMAIN m) -> DOMAIN m] :
        \A i, j \in 1..Cardinality(DOMAIN m) : i # j => l[i] # l[j] }

Register(endpoint) ==
    /\ Len(regLog) < MaxRegistryCalls
    /\ endpoints' = RegistryRegister(endpoints, endpoint)
    /\ regLog' = Append(regLog, RegistryEvent("register", endpoint.name, Some(endpoint)))
    /\ rout' = RegistryCall("register", endpoint.name, None)
    /\ UNCHANGED <<configVars, secretVars, registry, hostUp, wireVars, backendVars, storeVars, clientVars>>

Unregister(name) ==
    /\ Len(regLog) < MaxRegistryCalls
    /\ endpoints' = MapRemove(endpoints, name)
    /\ regLog' = Append(regLog, RegistryEvent("unregister", name, None))
    /\ rout' = RegistryCall("unregister", name, RegistryGet(endpoints, name))
    /\ UNCHANGED <<configVars, secretVars, registry, hostUp, wireVars, backendVars, storeVars, clientVars>>

Get(name) ==
    /\ rout' = RegistryCall("get", name, RegistryGet(endpoints, name))
    /\ UNCHANGED <<configVars, secretVars, registry, hostUp, wireVars, backendVars, storeVars, clientVars,
                   endpoints, regLog>>

List ==
    /\ \E l \in RegistryList(endpoints) : rout' = RegistryCall("list", "", l)
    /\ UNCHANGED <<configVars, secretVars, registry, hostUp, wireVars, backendVars, storeVars, clientVars,
                   endpoints, regLog>>

\* The other specifications leave the registry instance alone
QuietRegistry ==
    /\ endpoints = EmptyMap
    /\ regLog = <<>>
    /\ rout = NoRegistryCall

----------------------------------------------------------------------------
(* RpcClient: request ids *)

\* A request on the wire: the client that issued it, its "id", and whether
\* the response has been read
Request(client, id, answered) == [client |-> client, id |-> id, answered |-> answered]

\* The id request_id.fetch_add(1, SeqCst) returns to `client`
NextRequestId(cs, client) == cs[client]

\* The AtomicU64 of `client` after fetch_add(1); with at most MaxRequests
\* requests the counter stays far below 2^64 and never wraps
Advance(cs, client) == [cs EXCEPT ![client] = @ + 1]

\* RpcClient::new, as RpcSecretStore::new and RpcConfigProvider::new call it
NewClient ==
    /\ Len(clients) < MaxClients
    /\ clients' = Append(clients, 0)
    /\ UNCHANGED <<configVars, secretVars, registry, hostUp, wireVars, backendVars, storeVars, registryVars, reqLog>>

\* call / call_async up to the request being sent: the fetch_add is one
\* atomic step, whichever thread runs it
CallBegin(client) ==
    /\ client <= Len(clients)
    /\ Len(reqLog) < MaxRequests
    /\ reqLog' = Append(reqLog, Request(client, NextRequestId(clients, client), FALSE))
    /\ clients' = Advance(clients, client)
    /\ UNCHANGED <<configVars, secretVars, registry, hostUp, wireVars, backendVars, storeVars, registryVars>>

\* call / call_async returns: the response (or an error) has come back
CallEnd(k) ==
    /\ k <= Len(reqLog)
    /\ ~reqLog[k].answered
    /\ reqLog' = [reqLog EXCEPT ![k].answered = TRUE]
    /\ UNCHANGED <<configVars, secretVars, registry, hostUp, wireVars, backendVars, storeVars, registryVars, clients>>

\* The other specifications issue no request of their own
QuietClients ==
    /\ clients = <<>>
    /\ reqLog = <<>>

----------------------------------------------------------------------------
(* serde_json::Value, and its text                                         *)
(* A string is a sequence of characters; a character outside ASCII is     *)
(* named ("e-acute") and takes two bytes in UTF-8.  A byte is the ASCII    *)
(* character itself, or two hex digits.                                   *)

K_auth == <<"a","u","t","h">>
K_data == <<"d","a","t","a">>
K_id == <<"i","d">>
K_jsonrpc == <<"j","s","o","n","r","p","c">>
K_method == <<"m","e","t","h","o","d">>
K_params == <<"p","a","r","a","m","s">>
K_error == <<"e","r","r","o","r">>
K_result == <<"r","e","s","u","l","t">>
K_code == <<"c","o","d","e">>
K_message == <<"m","e","s","s","a","g","e">>
K_ok == <<"o","k">>
K_key == <<"k","e","y">>

\* Map<String, Value> is a BTreeMap: the keys of the model, in its order
KeyOrder == <<K_auth, K_code, K_data, K_error, K_id, K_jsonrpc, K_key, K_message,
              K_method, K_ok, K_params, K_result>>

JNull == [kind |-> "null", text |-> <<"n","u","l","l">>, fields |-> EmptyMap]
JBool(b) ==
    [kind |-> "bool",
     text |-> IF b THEN <<"t","r","u","e">> ELSE <<"f","a","l","s","e">>,
     fields |-> EmptyMap]
JString(s) == [kind |-> "string", text |-> s, fields |-> EmptyMap]
\* Value::Array, kept as its text
JArray(text) == [kind |-> "array", text |-> text, fields |-> EmptyMap]
JObject(fields) == [kind |-> "object", text |-> <<>>, fields |-> fields]

Digits == <<"0","1","2","3","4","5","6","7","8","9">>

RECURSIVE Decimal(_)
\* Display of an unsigned integer, as format!("{}", n) writes it
Decimal(n) ==
    IF n < 10 THEN <<Digits[n + 1]>>
    ELSE Decimal(n \div 10) \o <<Digits[(n % 10) + 1]>>

\* Display of an i64
SignedDecimal(n) == IF n < 0 THEN <<"-">> \o Decimal(0 - n) ELSE Decimal(n)

JNumber(n) == [kind |-> "number", text |-> SignedDecimal(n), fields |-> EmptyMap]

DigitValue(c) == (CHOOSE i \in 1..10 : Digits[i] = c) - 1

RECURSIVE DigitsValue(_)
DigitsValue(s) ==
    IF s = <<>> THEN 0
    ELSE DigitsValue(SubSeq(s, 1, Len(s) - 1)) * 10 + DigitValue(s[Len(s)])

IsDigits(s) == s # <<>> /\ \A i \in 1..Len(s) : \E d \in 1..10 : Digits[d] = s[i]

\* str::parse::<usize>: digits, after an optional "+"; None is the Err
ParseUsize(s) ==
    LET body == IF s # <<>> /\ Head(s) = "+" THEN Tail(s) ELSE s
    IN IF IsDigits(body) THEN Some(DigitsValue(body)) ELSE None

\* Value::as_i64: the number, when the value is an integer
AsI64(v) ==
    IF v.kind # "number" THEN None
    ELSE IF Head(v.text) = "-" THEN Some(0 - DigitsValue(Tail(v.text)))
    ELSE Some(DigitsValue(v.text))

\* Value::as_str
AsStr(v) == IF v.kind = "string" THEN Some(v.text) ELSE None

\* Value::get(key): None unless the value is an object that has the key
JGet(v, key) ==
    IF v.kind = "object" /\ key \in DOMAIN v.fields THEN Some(v.fields[key]) ELSE None

SortedKeys(fields) == SelectSeq(KeyOrder, LAMBDA k : k \in DOMAIN fields)

RECURSIVE ToJsonString(_)
RECURSIVE FieldsJson(_, _)
\* the members of an object, comma separated, in key order; the strings of
\* the model hold no character that JSON escapes
FieldsJson(fields, keys) ==
    IF keys = <<>> THEN <<>>
    ELSE <<"\"">> \o Head(keys) \o <<"\"", ":">> \o ToJsonString(fields[Head(keys)])
         \o (IF Tail(keys) = <<>> THEN <<>> ELSE <<",">>)
         \o FieldsJson(fields, Tail(keys))

\* serde_json::to_string
ToJsonString(v) ==
    CASE v.kind = "object" -> <<"{">> \o FieldsJson(v.fields, SortedKeys(v.fields)) \o <<"}">>
      [] v.kind = "string" -> <<"\"">> \o v.text \o <<"\"">>
      [] OTHER -> v.text

\* The characters outside ASCII, and the bytes that are not ASCII characters
WideChars == {"e-acute"}
HighBytes == {"C3", "A9", "FF"}

Utf8Char(c) == IF c = "e-acute" THEN <<"C3", "A9">> ELSE <<c>>

RECURSIVE AsBytes(_)
\* str::as_bytes: the UTF-8 encoding
AsBytes(s) == IF s = <<>> THEN <<>> ELSE Utf8Char(Head(s)) \o AsBytes(Tail(s))

\* str::len: the length in bytes
StrLen(s) == Len(AsBytes(s))

\* Whether the bytes are the encoding of some characters: a lead byte is
\* followed by its continuation byte, and no other high byte occurs
ValidUtf8(bytes) ==
    \A i \in 1..Len(bytes) :
        /\ bytes[i] # "FF"
        /\ bytes[i] = "C3" => (i < Len(bytes) /\ bytes[i + 1] = "A9")
        /\ bytes[i] = "A9" => (i > 1 /\ bytes[i - 1] = "C3")

\* String::from_utf8: the characters, or None for an invalid sequence
FromUtf8(bytes) ==
    LET leads == SelectSeq(bytes, LAMBDA b : b # "A9")
    IN IF ValidUtf8(bytes)
       THEN Some([i \in 1..Len(leads) |-> IF leads[i] = "C3" THEN "e-acute" ELSE leads[i]])
       ELSE None

Whitespace == {" ", "\t", "\r", "\n"}

RECURSIVE TrimStart(_)
TrimStart(s) == IF s # <<>> /\ Head(s) \in Whitespace THEN TrimStart(Tail(s)) ELSE s

RECURSIVE TrimEnd(_)
TrimEnd(s) ==
    IF s # <<>> /\ s[Len(s)] \in Whitespace THEN TrimEnd(SubSeq(s, 1, Len(s) - 1)) ELSE s

\* str::trim
Trim(s) == TrimEnd(TrimStart(s))


----------------------------------------------------------------------------
(* RpcClient: the request of one call *)

\* A client that wraps whatever is not an object, null included
ParamsWithAuth_WrapNull(params_value, auth_token) ==
    IF params_value.kind = "object"
    THEN JObject(MapInsert(params_value.fields, K_auth, JString(auth_token)))
    ELSE JObject(MapInsert(MapInsert(EmptyMap, K_auth, JString(auth_token)),
                           K_data, params_value))

\* call / call_async, "Add auth token to params"
ParamsWithAuth(params_value, auth_token) ==
    CASE params_value.kind = "object" ->
           JObject(MapInsert(params_value.fields, K_auth, JString(auth_token)))
      [] params_value.kind = "null" ->
           JObject(MapInsert(EmptyMap, K_auth, JString(auth_token)))
      [] OTHER ->
           JObject(MapInsert(MapInsert(EmptyMap, K_auth, JString(auth_token)),
                             K_data, params_value))

V_2_0 == <<"2", ".", "0">>

\* json!({"jsonrpc": "2.0", "id": id, "method": method, "params": params})
JsonRpcRequest(id, method, params) ==
    JObject(MapInsert(MapInsert(MapInsert(MapInsert(EmptyMap,
        K_jsonrpc, JString(V_2_0)), K_id, JNumber(id)),
        K_method, JString(method)), K_params, params))

\* The request call / call_async build
CallRequest(id, method, params_value, auth_token) ==
    JsonRpcRequest(id, method, ParamsWithAuth(params_value, auth_token))

M_ping == <<"l","i","f","e","c","y","c","l","e","/","p","i","n","g">>

\* The request ping / ping_async build: id 0, empty params, no auth
PingRequest == JsonRpcRequest(0, M_ping, JObject(EmptyMap))

----------------------------------------------------------------------------
(* RpcClient: one request and its response on the socket *)

\* RpcResult<R>: the value, or the RpcError variant with what it carries
RpcOk(value) ==
    [ok |-> TRUE, kind |-> "Ok", detail |-> "", code |-> 0, message |-> <<>>,
     value |-> value]
RpcFailure(kind, detail) ==
    [ok |-> FALSE, kind |-> kind, detail |-> detail, code |-> 0, message |-> <<>>,
     value |-> JNull]
\* RpcError::RpcError { code, message }
RpcErrorResponse(code, message) ==
    [ok |-> FALSE, kind |-> "RpcError", detail |-> "", code |-> code,
     message |-> message, value |-> JNull]

ContentLengthHeader == <<"C","o","n","t","e","n","t","-","L","e","n","g","t","h",":">>
CRLF == <<"\r", "\n">>

\* A client that counts characters, not bytes
ContentLength_Chars(content) == Len(content)

\* content.len() in do_request
ContentLength(content) == StrLen(content)

\* do_request: format!("Content-Length: {}\r\n\r\n{}", content.len(), content)
\* and message.as_bytes()
Message(request) ==
    LET content == ToJsonString(request)
    IN AsBytes(ContentLengthHeader \o <<" ">> \o Decimal(ContentLength(content))
               \o CRLF \o CRLF \o content)

\* What read_response has after the headers: the content, or the failure
Frame(content, rest) == [ok |-> TRUE, content |-> content, rest |-> rest, err |-> RpcOk(JNull)]
NoFrame(err) == [ok |-> FALSE, content |-> <<>>, rest |-> <<>>, err |-> err]

\* The index of the first newline of the stream, 0 if it has none
NewlineIndex(stream) == FirstIndex({ i \in 1..Len(stream) : stream[i] = "\n" })

\* read_response after its loop: ok_or_else, then read_exact
ReadContent(stream, content_length) ==
    IF ~IsSome(content_length)
    THEN NoFrame(RpcFailure("InvalidResponse", "Missing Content-Length header"))
    ELSE IF Len(stream) < Unwrap(content_length)
    THEN NoFrame(RpcFailure("Io", "failed to fill whole buffer"))
    ELSE Frame(SubSeq(stream, 1, Unwrap(content_length)),
               SubSeq(stream, Unwrap(content_length) + 1, Len(stream)))

RECURSIVE ReadHeaders(_, _)
\* The loop of read_response / read_response_async: one read_line a turn
ReadHeaders(stream, content_length) ==
    LET n == NewlineIndex(stream)
        raw == IF n = 0 THEN stream ELSE SubSeq(stream, 1, n)
        rest == IF n = 0 THEN <<>> ELSE SubSeq(stream, n + 1, Len(stream))
        text == FromUtf8(raw)
    IN IF raw = <<>>
       THEN NoFrame(RpcFailure("InvalidResponse", "Connection closed"))
       ELSE IF ~IsSome(text)
       THEN NoFrame(RpcFailure("Io", "stream did not contain valid UTF-8"))
       ELSE LET line == Trim(Unwrap(text))
                len_str == StripPrefix(line, ContentLengthHeader)
            IN IF line = <<>> THEN ReadContent(rest, content_length)
               ELSE IF ~IsSome(len_str) THEN ReadHeaders(rest, content_length)
               ELSE IF IsSome(ParseUsize(Trim(Unwrap(len_str))))
               THEN ReadHeaders(rest, ParseUsize(Trim(Unwrap(len_str))))
               ELSE NoFrame(RpcFailure("InvalidResponse", "Invalid Content-Length"))

\* The framing half of read_response: headers, then exactly that many bytes
ReadFrame(stream) == ReadHeaders(stream, None)

\* The JSON texts a host of the model sends
R_ok == JObject(MapInsert(EmptyMap, K_ok, JBool(TRUE)))
R_error ==
    JObject(MapInsert(MapInsert(EmptyMap, K_code, JNumber(0 - 7)),
                      K_message, JString(<<"n", "e-acute">>)))
ResponseValues ==
    { JObject(MapInsert(EmptyMap, K_result, R_ok)),
      JObject(MapInsert(EmptyMap, K_error, R_error)),
      JObject(MapInsert(MapInsert(EmptyMap, K_error, R_error), K_result, R_ok)),
      JObject(MapInsert(EmptyMap, K_error, JNull)),
      JObject(MapInsert(EmptyMap, K_error,
                        JObject(MapInsert(EmptyMap, K_code, JString(<<"7">>))))),
      JObject(MapInsert(EmptyMap, K_id, JNumber(0))),
      JObject(MapInsert(EmptyMap, K_result, JString(<<"o", "k">>))),
      JObject(MapInsert(EmptyMap, K_result,
                        JObject(MapInsert(EmptyMap, K_ok, JNumber(1))))),
      JNumber(7) }

\* serde_json::from_slice, over the texts of the model: the value whose
\* text the bytes are, or None for the serde_json::Error
FromSlice(content) ==
    LET hits == { v \in ResponseValues : AsBytes(ToJsonString(v)) = content }
    IN IF hits = {} THEN None ELSE Some(CHOOSE v \in hits : TRUE)

\* read_response / read_response_async
ReadResponse(stream) ==
    LET frame == ReadFrame(stream)
    IN IF ~frame.ok THEN frame.err
       ELSE IF ~IsSome(FromSlice(frame.content))
       THEN RpcFailure("Json", "serde_json::Error")
       ELSE RpcOk(Unwrap(FromSlice(frame.content)))

UnknownError == <<"U","n","k","n","o","w","n"," ","e","r","r","o","r">>

\* Option::unwrap_or
UnwrapOr(o, default) == IF IsSome(o) THEN Unwrap(o) ELSE default

\* Option::and_then
AndThen(o, F(_)) == IF IsSome(o) THEN F(Unwrap(o)) ELSE None

\* serde_json::from_value::<R> for R = struct { ok: bool }: the struct, or
\* None for the serde_json::Error; fields R does not name are ignored
FromValue(result) ==
    IF IsSome(JGet(result, K_ok)) /\ Unwrap(JGet(result, K_ok)).kind = "bool"
    THEN Some(JObject(MapInsert(EmptyMap, K_ok, Unwrap(JGet(result, K_ok)))))
    ELSE None

\* A host that answers success whenever the response has a result
ParseResponse_ResultFirst(response) ==
    LET error == JGet(response, K_error)
        result == JGet(response, K_result)
    IN IF IsSome(result) /\ IsSome(FromValue(Unwrap(result)))
       THEN RpcOk(Unwrap(FromValue(Unwrap(result))))
       ELSE IF IsSome(error)
       THEN RpcErrorResponse(
                UnwrapOr(AndThen(JGet(Unwrap(error), K_code), AsI64), 0 - 1),
                UnwrapOr(AndThen(JGet(Unwrap(error), K_message), AsStr), UnknownError))
       ELSE RpcFailure("InvalidResponse", "Missing result field")

\* parse_response
ParseResponse(response) ==
    LET error == JGet(response, K_error)
        result == JGet(response, K_result)
    IN IF IsSome(error)
       THEN RpcErrorResponse(
                UnwrapOr(AndThen(JGet(Unwrap(error), K_code), AsI64), 0 - 1),
                UnwrapOr(AndThen(JGet(Unwrap(error), K_message), AsStr), UnknownError))
       ELSE IF ~IsSome(result)
       THEN RpcFailure("InvalidResponse", "Missing result field")
       ELSE IF ~IsSome(FromValue(Unwrap(result)))
       THEN RpcFailure("Json", "serde_json::Error")
       ELSE RpcOk(Unwrap(FromValue(Unwrap(result))))

\* What one exchange leaves behind: the connect calls made, the bytes
\* written, what the peer read as the request's content, and the answer
Exchange(connects, written, received, result) ==
    [connects |-> connects, written |-> written, received |-> received, result |-> result]

\* send_request / send_request_async with do_request / do_request_async:
\* connect, write the message, read the response.  The peer reads the
\* message by the framing rule.
SendRequest(p, request) ==
    IF ~p.accepts
    THEN Exchange(1, <<>>, None, RpcFailure("ConnectionFailed", "connect"))
    ELSE LET message == Message(request)
             got == ReadFrame(message)
         IN Exchange(1, message, IF got.ok THEN Some(got.content) ELSE None,
                     ReadResponse(p.reply))

\* call / call_async: send_request(&request)?, then parse_response
CallOutcome(p, request) ==
    LET sent == SendRequest(p, request)
    IN IF sent.result.ok
       THEN [sent EXCEPT !.result = ParseResponse(sent.result.value)]
       ELSE sent

\* A ping that goes straight to the socket
PingOutcome_NoCheck(p) ==
    LET done == CallOutcome(p, PingRequest)
    IN IF done.result.ok
       THEN [done EXCEPT !.result = RpcOk(done.result.value.fields[K_ok])]
       ELSE done


\* ping / ping_async: the exists() check, then as call, then result.ok
PingOutcome(p) ==
    IF ~p.exists
    THEN Exchange(0, <<>>, None, RpcFailure("ConnectionFailed", "Socket does not exist"))
    ELSE LET done == CallOutcome(p, PingRequest)
         IN IF done.result.ok
            THEN [done EXCEPT !.result = RpcOk(done.result.value.fields[K_ok])]
            ELSE done

----------------------------------------------------------------------------
(* RpcClient: call, call_async, ping, ping_async *)

\* Number of call / call_async requests one client issues
MaxCalls == 2

\* The socket path of the client: whether the file exists, whether a host
\* accepts connections on it, and the bytes the host answers a request with
Peer(exists, accepts, reply) == [exists |-> exists, accepts |-> accepts, reply |-> reply]

NoExchange == Exchange(0, <<>>, None, RpcOk(JNull))

\* RpcClient::new(socket_path, auth_token): request_id starts at 0
NewRpcClient(auth_token) ==
    [auth_token |-> auth_token, request_id |-> 0, op |-> "none", params |-> JNull,
     request |-> JNull, sent |-> NoExchange]

\* call: fetch_add, the request, the exchange.  With MaxCalls requests the
\* AtomicU64 stays far below 2^64.
RpcCall(method, params) ==
    /\ rpcClient.request_id < MaxCalls
    /\ LET request == CallRequest(rpcClient.request_id, method, params, rpcClient.auth_token)
       IN rpcClient' = [rpcClient EXCEPT !.request_id = @ + 1, !.op = "call", !.params = params,
                             !.request = request, !.sent = CallOutcome(peer, request)]
    /\ UNCHANGED <<configVars, secretVars, registry, hostUp, storeVars, registryVars,
                   clientVars, peer, backendVars>>

\* call_async: the same steps on the tokio stream
RpcCallAsync(method, params) ==
    /\ rpcClient.request_id < MaxCalls
    /\ LET request == CallRequest(rpcClient.request_id, method, params, rpcClient.auth_token)
       IN rpcClient' = [rpcClient EXCEPT !.request_id = @ + 1, !.op = "call_async", !.params = params,
                             !.request = request, !.sent = CallOutcome(peer, request)]
    /\ UNCHANGED <<configVars, secretVars, registry, hostUp, storeVars, registryVars,
                   clientVars, peer, backendVars>>

\* ping: request_id is left alone
Ping ==
    /\ rpcClient' = [rpcClient EXCEPT !.op = "ping", !.params = JObject(EmptyMap),
                          !.request = PingRequest, !.sent = PingOutcome(peer)]
    /\ UNCHANGED <<configVars, secretVars, registry, hostUp, storeVars, registryVars,
                   clientVars, peer, backendVars>>

\* ping_async
PingAsync ==
    /\ rpcClient' = [rpcClient EXCEPT !.op = "ping_async", !.params = JObject(EmptyMap),
                          !.request = PingRequest, !.sent = PingOutcome(peer)]
    /\ UNCHANGED <<configVars, secretVars, registry, hostUp, storeVars, registryVars,
                   clientVars, peer, backendVars>>

\* The other specifications make no call
QuietWire ==
    /\ peer = Peer(FALSE, FALSE, <<>>)
    /\ rpcClient = NewRpcClient(<<>>)

----------------------------------------------------------------------------
(* KeychainSecretStore over the keyring backend *)

\* SecretStoreResult<()>: Ok(()), or the SecretStoreError with its message
StoreOk == [ok |-> TRUE, variant |-> "", message |-> ""]
StoreErr(variant, message) == [ok |-> FALSE, variant |-> variant, message |-> message]

EntryError == StoreErr("Other", "Failed to create keychain entry")
WriteError == StoreErr("Other", "Failed to store in keychain")
MismatchError == StoreErr("Other", "Keychain store verification failed: value mismatch")
ReadBackError == StoreErr("Other", "Keychain store verification failed: could not read back")
DeleteError == StoreErr("Other", "Failed to delete from keychain")
ReadOnlyError == StoreErr("ReadOnly", "")

\* What the platform does during one store call: whether Entry::new
\* succeeds for the first and for the second handle, what set_password does
\* (persist the value, return Ok without persisting it, persist something
\* else, fail), and whether get_password can read
SetBehaviours == {"persist", "lost", "altered", "error"}
KeyringBehaviours ==
    [entry1 : BOOLEAN, set : SetBehaviours, entry2 : BOOLEAN, read : BOOLEAN]

\* What a call on the keychain store leaves behind: the credentials, the
\* result, the entry handles created, whether set_password returned Ok, and
\* what get_password on the second handle returned (None: no read, or an error)
KeyringOutcome(entries, result, handles, wrote, read_made, read) ==
    [entries |-> entries, result |-> result, handles |-> handles, wrote |-> wrote,
     read_made |-> read_made, read |-> read]

\* Entry::get_password: the credential, or None for NoEntry and other errors
GetPassword(entries, key, readable) ==
    IF readable /\ key \in DOMAIN entries THEN Some(entries[key]) ELSE None

\* The credentials after a set_password that returned Ok
AfterSetPassword(entries, key, value, set) ==
    CASE set = "persist" -> MapInsert(entries, key, value)
      [] set = "altered" -> MapInsert(entries, key, "garbled")
      [] OTHER -> entries

\* A store that trusts set_password
KeychainStoreOutcome_NoReadBack(entries, key, value, b) ==
    IF ~b.entry1 THEN KeyringOutcome(entries, EntryError, 0, FALSE, FALSE, None)
    ELSE IF b.set = "error" THEN KeyringOutcome(entries, WriteError, 1, FALSE, FALSE, None)
    ELSE KeyringOutcome(AfterSetPassword(entries, key, value, b.set), StoreOk, 1, TRUE,
                        FALSE, None)

\* KeychainSecretStore::store
KeychainStoreOutcome(entries, key, value, b) ==
    IF ~b.entry1 THEN KeyringOutcome(entries, EntryError, 0, FALSE, FALSE, None)
    ELSE IF b.set = "error" THEN KeyringOutcome(entries, WriteError, 1, FALSE, FALSE, None)
    ELSE LET after == AfterSetPassword(entries, key, value, b.set)
             retrieved == GetPassword(after, key, b.read)
         IN IF ~b.entry2 THEN KeyringOutcome(after, EntryError, 1, TRUE, FALSE, None)
            ELSE IF retrieved = Some(value)
            THEN KeyringOutcome(after, StoreOk, 2, TRUE, TRUE, retrieved)
            ELSE IF IsSome(retrieved)
            THEN KeyringOutcome(after, MismatchError, 2, TRUE, TRUE, retrieved)
            ELSE KeyringOutcome(after, ReadBackError, 2, TRUE, TRUE, retrieved)

\* What the platform does during one delete call: whether Entry::new
\* succeeds, and whether delete_credential fails on an existing credential
DeleteBehaviours == [entry1 : BOOLEAN, fails : BOOLEAN]

\* KeychainSecretStore::delete: NoEntry counts as deleted
KeychainDeleteOutcome(entries, key, b) ==
    IF ~b.entry1 THEN KeyringOutcome(entries, EntryError, 0, FALSE, FALSE, None)
    ELSE IF b.fails /\ key \in DOMAIN entries
    THEN KeyringOutcome(entries, DeleteError, 1, FALSE, FALSE, None)
    ELSE KeyringOutcome(MapRemove(entries, key), StoreOk, 1, FALSE, FALSE, None)

\* The keyring's credentials and the last call on the store
Keyring(entries, op, key, value, out) ==
    [entries |-> entries, op |-> op, key |-> key, value |-> value,
     result |-> out.result, handles |-> out.handles, wrote |-> out.wrote,
     read_made |-> out.read_made, read |-> out.read]

NewKeyring(entries) ==
    Keyring(entries, "none", "", "", KeyringOutcome(entries, StoreOk, 0, FALSE, FALSE, None))

KeychainStore(key, value, b) ==
    /\ LET out == KeychainStoreOutcome(keyring.entries, key, value, b)
       IN keyring' = Keyring(out.entries, "store", key, value, out)
    /\ UNCHANGED <<configVars, secretVars, registry, hostUp, storeVars, registryVars,
                   clientVars, wireVars, msec, chain, token>>

KeychainDelete(key, b) ==
    /\ LET out == KeychainDeleteOutcome(keyring.entries, key, b)
       IN keyring' = Keyring(out.entries, "delete", key, "", out)
    /\ UNCHANGED <<configVars, secretVars, registry, hostUp, storeVars, registryVars,
                   clientVars, wireVars, msec, chain, token>>

----------------------------------------------------------------------------
(* MemorySecretStore *)

\* Number of store, delete and clear calls made on the memory store
MaxSecretCalls == 3

SecretKeyNames == {"k1", "k2"}
SecretValues == {"v1", "v2"}

\* A store, delete or clear call, as it is remembered
SecretCall(op, key, value) == [op |-> op, key |-> key, value |-> value]

\* The answer of a get, has or len call
SecretAnswer(op, key, value, flag, count) ==
    [op |-> op, key |-> key, value |-> value, flag |-> flag, count |-> count]
NoSecretAnswer == SecretAnswer("none", "", None, FALSE, 0)

\* HashMap::get(key).cloned()
MemoryGet(secrets, key) == IF key \in DOMAIN secrets THEN Some(secrets[key]) ELSE None

\* A store whose delete leaves the map alone
MemoryRemove_Keep(secrets, key) == secrets

\* secrets.remove(key) in MemorySecretStore::delete
MemoryRemove(secrets, key) == MapRemove(secrets, key)

\* SecretStore::has, the default method: self.get(key).is_some()
MemoryHas(secrets, key) == IsSome(MemoryGet(secrets, key))

\* MemorySecretStore::len
MemoryLen(secrets) == Cardinality(DOMAIN secrets)

\* MemorySecretStore::new
NewMemorySecretStore == [secrets |-> EmptyMap, log |-> <<>>, out |-> NoSecretAnswer]

\* SecretStore::store for MemorySecretStore
MemStore(key, value) ==
    /\ Len(msec.log) < MaxSecretCalls
    /\ msec' = [msec EXCEPT !.secrets = MapInsert(@, key, value),
                            !.log = Append(@, SecretCall("store", key, value)),
                            !.out = NoSecretAnswer]
    /\ UNCHANGED <<configVars, secretVars, registry, hostUp, storeVars, registryVars,
                   clientVars, wireVars, keyring, chain, token>>

\* SecretStore::delete for MemorySecretStore
MemDelete(key) ==
    /\ Len(msec.log) < MaxSecretCalls
    /\ msec' = [msec EXCEPT !.secrets = MemoryRemove(@, key),
                            !.log = Append(@, SecretCall("delete", key, "")),
                            !.out = NoSecretAnswer]
    /\ UNCHANGED <<configVars, secretVars, registry, hostUp, storeVars, registryVars,
                   clientVars, wireVars, keyring, chain, token>>

\* MemorySecretStore::clear
MemClear ==
    /\ Len(msec.log) < MaxSecretCalls
    /\ msec' = [msec EXCEPT !.secrets = EmptyMap,
                            !.log = Append(@, SecretCall("clear", "", "")),
                            !.out = NoSecretAnswer]
    /\ UNCHANGED <<configVars, secretVars, registry, hostUp, storeVars, registryVars,
                   clientVars, wireVars, keyring, chain, token>>

\* SecretStore::get for MemorySecretStore
MemGet(key) ==
    /\ msec' = [msec EXCEPT !.out = SecretAnswer("get", key, MemoryGet(msec.secrets, key),
                                                 FALSE, 0)]
    /\ UNCHANGED <<configVars, secretVars, registry, hostUp, storeVars, registryVars,
                   clientVars, wireVars, keyring, chain, token>>

\* SecretStore::has
MemHas(key) ==
    /\ msec' = [msec EXCEPT !.out = SecretAnswer("has", key, None,
                                                 MemoryHas(msec.secrets, key), 0)]
    /\ UNCHANGED <<configVars, secretVars, registry, hostUp, storeVars, registryVars,
                   clientVars, wireVars, keyring, chain, token>>

\* MemorySecretStore::len
MemLen ==
    /\ msec' = [msec EXCEPT !.out = SecretAnswer("len", "", None, FALSE,
                                                 MemoryLen(msec.secrets))]
    /\ UNCHANGED <<configVars, secretVars, registry, hostUp, storeVars, registryVars,
                   clientVars, wireVars, keyring, chain, token>>

----------------------------------------------------------------------------
(* ChainSecretStore over member stores *)

\* Longest chain
MaxMembers == 2

\* A member store behind Arc<dyn SecretStore>: a MemorySecretStore, an
\* EnvSecretStore (read-only), a KeychainSecretStore, which is unavailable
\* when no entry can be created and whose delete_credential may fail
\* (denies), or an RpcSecretStore, which is unavailable when its host does
\* not answer ping with ok while the host still serves its secrets
Member(kind, available, denies, secrets) ==
    [kind |-> kind, available |-> available, denies |-> denies, secrets |-> secrets]

\* SecretStore::is_available of a member
MemberIsAvailable(m) == m.available

\* SecretStore::get of a member: a keychain that cannot create an entry
\* answers None
MemberGet(m, key) ==
    IF m.kind = "keychain" /\ ~m.available THEN None ELSE MemoryGet(m.secrets, key)

\* SecretStore::has of a member
MemberHas(m, key) == IsSome(MemberGet(m, key))

\* The member after a call, and the call's result
MemberOutcome(m, result) == [member |-> m, result |-> result]

\* SecretStore::store of a member
MemberStore(m, key, value) ==
    CASE m.kind = "env" -> MemberOutcome(m, ReadOnlyError)
      [] m.kind = "keychain" /\ ~m.available -> MemberOutcome(m, EntryError)
      [] OTHER -> MemberOutcome([m EXCEPT !.secrets = MapInsert(@, key, value)], StoreOk)

\* SecretStore::delete of a member
MemberDelete(m, key) ==
    CASE m.kind = "env" -> MemberOutcome(m, ReadOnlyError)
      [] m.kind = "keychain" /\ ~m.available -> MemberOutcome(m, EntryError)
      [] m.kind = "keychain" /\ m.denies /\ key \in DOMAIN m.secrets ->
           MemberOutcome(m, DeleteError)
      [] OTHER -> MemberOutcome([m EXCEPT !.secrets = MapRemove(@, key)], StoreOk)

\* A chain that answers from the last member holding the key
ChainGet_LastHolder(stores, key) ==
    LET hits == { i \in 1..Len(stores) :
                    MemberIsAvailable(stores[i]) /\ IsSome(MemberGet(stores[i], key)) }
    IN IF hits = {} THEN None
       ELSE MemberGet(stores[CHOOSE i \in hits : \A j \in hits : j <= i], key)

\* ChainSecretStore::get: the first available member with a value
ChainGet(stores, key) ==
    LET hit == FirstIndex({ i \in 1..Len(stores) :
                              MemberIsAvailable(stores[i]) /\ IsSome(MemberGet(stores[i], key)) })
    IN IF hit = 0 THEN None ELSE MemberGet(stores[hit], key)

\* A chain that writes to its first available member
ChainStore_FirstAvailable(stores, write_store_index, key, value) ==
    LET hit == FirstIndex({ i \in 1..Len(stores) : MemberIsAvailable(stores[i]) })
        at == IF hit = 0 THEN 1 ELSE hit
        done == MemberStore(stores[at], key, value)
    IN [stores |-> [stores EXCEPT ![at] = done.member], result |-> done.result]

\* ChainSecretStore::store: self.stores[self.write_store_index].store(..);
\* Vec indices start at 0
ChainStore(stores, write_store_index, key, value) ==
    LET done == MemberStore(stores[write_store_index + 1], key, value)
    IN [stores |-> [stores EXCEPT ![write_store_index + 1] = done.member],
        result |-> done.result]

\* A chain whose delete gives up at the first member that refuses
ChainDelete_StopAtError(stores, key) ==
    LET refusing == FirstIndex({ i \in 1..Len(stores) :
                                   MemberHas(stores[i], key)
                                   /\ ~MemberDelete(stores[i], key).result.ok })
    IN [stores |-> [i \in 1..Len(stores) |->
                       IF MemberHas(stores[i], key) /\ (refusing = 0 \/ i < refusing)
                       THEN MemberDelete(stores[i], key).member
                       ELSE stores[i]],
        result |-> IF refusing = 0 THEN StoreOk ELSE MemberDelete(stores[refusing], key).result]

\* ChainSecretStore::delete: every member that has the key is asked, errors
\* are ignored, the result is Ok(())
ChainDelete(stores, key) ==
    [stores |-> [i \in 1..Len(stores) |->
                    IF MemberHas(stores[i], key)
                    THEN MemberDelete(stores[i], key).member
                    ELSE stores[i]],
     result |-> StoreOk]

\* The chain, the constructor that built it, the last call on it with its
\* answer, and the members as the call found them
Chain(ctor, stores, write_store_index, op, key, value, answer, result, before) ==
    [ctor |-> ctor, stores |-> stores, write_store_index |-> write_store_index,
     op |-> op, key |-> key, value |-> value, answer |-> answer, result |-> result,
     before |-> before]

\* ChainSecretStore::new(stores): writes go to the first store
ChainNew(stores) == Chain("new", stores, 0, "none", "", "", None, StoreOk, stores)

\* ChainSecretStore::with_write_store(stores, write_store_index)
ChainWithWriteStore(stores, write_store_index) ==
    Chain("with_write_store", stores, write_store_index, "none", "", "", None, StoreOk,
          stores)

CallChainGet(key) ==
    /\ chain' = Chain(chain.ctor, chain.stores, chain.write_store_index, "get", key, "",
                      ChainGet(chain.stores, key), StoreOk, chain.stores)
    /\ UNCHANGED <<configVars, secretVars, registry, hostUp, storeVars, registryVars,
                   clientVars, wireVars, keyring, msec, token>>

CallChainStore(key, value) ==
    /\ LET done == ChainStore(chain.stores, chain.write_store_index, key, value)
       IN chain' = Chain(chain.ctor, done.stores, chain.write_store_index, "store", key,
                         value, None, done.result, chain.stores)
    /\ UNCHANGED <<configVars, secretVars, registry, hostUp, storeVars, registryVars,
                   clientVars, wireVars, keyring, msec, token>>

CallChainDelete(key) ==
    /\ LET done == ChainDelete(chain.stores, key)
       IN chain' = Chain(chain.ctor, done.stores, chain.write_store_index, "delete", key,
                         "", None, done.result, chain.stores)
    /\ UNCHANGED <<configVars, secretVars, registry, hostUp, storeVars, registryVars,
                   clientVars, wireVars, keyring, msec, token>>

----------------------------------------------------------------------------
(* CancellationToken *)

\* The threads that await cancelled() and the threads that call cancel();
\* each works on a handle of the one token
Waiters == {"w1", "w2"}
Cancellers == {"c1", "c2"}
MaxClones == 2
Handles == 1..(MaxClones + 1)

\* CancellationToken::new: the inner state every clone shares (the flag and
\* the Notify, of which only the count of notify_waiters calls matters to a
\* Notified future), the number of handles, and where each thread stands
NewToken ==
    [cancelled |-> FALSE,
     notify_waiters_calls |-> 0,
     handles |-> 1,
     wait |-> [w \in Waiters |-> [pc |-> "idle", on |-> 0, seen |-> 0, began |-> "none"]],
     cancel |-> [c \in Cancellers |-> [pc |-> "idle", on |-> 0]]]

\* How a call of cancelled() that starts now stands to the cancel() calls
CancelPhase ==
    IF \E c \in Cancellers : token.cancel[c].pc = "done" THEN "after"
    ELSE IF \E c \in Cancellers : token.cancel[c].pc # "idle" THEN "during"
    ELSE "before"

\* Clone and child_token: one more handle on the same inner state
TokenClone ==
    /\ token.handles <= MaxClones
    /\ token' = [token EXCEPT !.handles = @ + 1]
    /\ UNCHANGED <<configVars, secretVars, registry, hostUp, storeVars, registryVars,
                   clientVars, wireVars, keyring, msec, chain>>

\* cancelled(), up to its test of is_cancelled(): return at once when the
\* flag is set
CancelledCheck(w, h) ==
    /\ token.wait[w].pc = "idle"
    /\ h <= token.handles
    /\ token' = [token EXCEPT !.wait[w] =
                     [pc |-> IF token.cancelled THEN "done" ELSE "checked",
                      on |-> h, seen |-> 0, began |-> CancelPhase]]
    /\ UNCHANGED <<configVars, secretVars, registry, hostUp, storeVars, registryVars,
                   clientVars, wireVars, keyring, msec, chain>>

\* cancelled(): notify.notified() makes the Notified future, which notes
\* the count of notify_waiters calls made so far
CancelledNotified(w) ==
    /\ token.wait[w].pc = "checked"
    /\ token' = [token EXCEPT !.wait[w].pc = "waiting",
                              !.wait[w].seen = token.notify_waiters_calls]
    /\ UNCHANGED <<configVars, secretVars, registry, hostUp, storeVars, registryVars,
                   clientVars, wireVars, keyring, msec, chain>>

\* cancelled(): the Notified future completes once notify_waiters has been
\* called after the future was made
CancelledWake(w) ==
    /\ token.wait[w].pc = "waiting"
    /\ token.notify_waiters_calls # token.wait[w].seen
    /\ token' = [token EXCEPT !.wait[w].pc = "done"]
    /\ UNCHANGED <<configVars, secretVars, registry, hostUp, storeVars, registryVars,
                   clientVars, wireVars, keyring, msec, chain>>

\* cancel(): cancelled.swap(true); only the call that found the flag clear
\* goes on to notify. A thread may call cancel() again after a call returned
CancelSwap(c, h) ==
    /\ token.cancel[c].pc \in {"idle", "done"}
    /\ h <= token.handles
    /\ token' = [token EXCEPT !.cancelled = TRUE,
                              !.cancel[c] = [pc |-> IF token.cancelled THEN "done"
                                                    ELSE "notify",
                                             on |-> h]]
    /\ UNCHANGED <<configVars, secretVars, registry, hostUp, storeVars, registryVars,
                   clientVars, wireVars, keyring, msec, chain>>

\* cancel(): notify.notify_waiters() wakes the Notified futures that exist;
\* it leaves no permit for one made later
CancelNotifyWaiters(c) ==
    /\ token.cancel[c].pc = "notify"
    /\ token' = [token EXCEPT !.notify_waiters_calls = @ + 1,
                              !.cancel[c].pc = "done"]
    /\ UNCHANGED <<configVars, secretVars, registry, hostUp, storeVars, registryVars,
                   clientVars, wireVars, keyring, msec, chain>>

----------------------------------------------------------------------------
\* The other specifications leave the secret store backends alone
QuietKeyring == keyring = NewKeyring(EmptyMap)
QuietMemory == msec = NewMemorySecretStore
QuietChain == chain = ChainNew(<<>>)
QuietToken == token = NewToken
QuietBackends ==
    /\ QuietKeyring
    /\ QuietMemory
    /\ QuietChain
    /\ QuietToken

----------------------------------------------------------------------------
(* FileConfigProvider: the cache of one instance *)

\* Variant of save that writes the file and leaves the cache as it was
FileSave_KeepCache(loaded, config) ==
    { [result |-> Ok(<<>>),
       fcp |-> [disk |-> ConfigFile(config.providers, config.defaults), cache |-> loaded.cache]],
      [result |-> Err(IoError), fcp |-> loaded] }

\* save(config) after get_config left the provider as `loaded`: the file is
\* written and the cache set to the config, or create_dir_all or fs::write
\* fails and the `?` returns before the cache is touched
FileSave(loaded, config) ==
    { [result |-> Ok(<<>>),
       fcp |-> [disk |-> ConfigFile(config.providers, config.defaults), cache |-> Some(config)]],
      [result |-> Err(IoError), fcp |-> loaded] }

\* import_providers(providers)
FileImportProviders(ps) ==
    LET got == GetConfig(fcp.cache, fcp.disk)
    IN /\ \E o \in (IF IsSome(got)
                    THEN FileSave([fcp EXCEPT !.cache = got],
                                  [providers |-> ps, defaults |-> Unwrap(got).defaults])
                    ELSE LoadFailed(fcp)) :
             /\ fcp' = o.fcp
             /\ cout' = StoreCall("file", "import_providers", <<>>, ps, o.result)
       /\ UNCHANGED <<configVars, secretVars, registry, hostUp, wireVars, backendVars, mem, registryVars, clientVars>>

\* set_defaults(defaults); the call record carries the argument as its name
FileSetDefaults(d) ==
    LET got == GetConfig(fcp.cache, fcp.disk)
    IN /\ \E o \in (IF IsSome(got)
                    THEN FileSave([fcp EXCEPT !.cache = got],
                                  [providers |-> Unwrap(got).providers, defaults |-> Some(d)])
                    ELSE LoadFailed(fcp)) :
             /\ fcp' = o.fcp
             /\ cout' = StoreCall("file", "set_defaults", Some(d), None, o.result)
       /\ UNCHANGED <<configVars, secretVars, registry, hostUp, wireVars, backendVars, mem, registryVars, clientVars>>

\* reload: load()?, then the cache is set to what was loaded
FileReload ==
    LET config == Load(fcp.disk)
    IN /\ fcp' = IF IsSome(config) THEN [fcp EXCEPT !.cache = config] ELSE fcp
       /\ cout' = StoreCall("file", "reload", <<>>, None,
                            IF IsSome(config) THEN Ok(<<>>)
                            ELSE Err(OtherError("Failed to parse YAML")))
       /\ UNCHANGED <<configVars, secretVars, registry, hostUp, wireVars, backendVars, mem, registryVars, clientVars>>

\* get_providers: get_config fills an empty cache; the call record carries
\* the list returned
CallFileGetProviders ==
    LET got == GetConfig(fcp.cache, fcp.disk)
    IN /\ fcp' = IF IsSome(got) THEN [fcp EXCEPT !.cache = got] ELSE fcp
       /\ cout' = StoreCall("file", "get_providers", <<>>, FileProviders(fcp), Ok(<<>>))
       /\ UNCHANGED <<configVars, secretVars, registry, hostUp, wireVars, backendVars, mem, registryVars, clientVars>>

\* get_defaults: the call record carries the defaults returned as its name
CallFileGetDefaults ==
    LET got == GetConfig(fcp.cache, fcp.disk)
    IN /\ fcp' = IF IsSome(got) THEN [fcp EXCEPT !.cache = got] ELSE fcp
       /\ cout' = StoreCall("file", "get_defaults",
                            IF IsSome(got) THEN Unwrap(got).defaults ELSE None, None,
                            IF IsSome(got) THEN Ok(<<>>)
                            ELSE Err(OtherError("Failed to parse YAML")))
       /\ UNCHANGED <<configVars, secretVars, registry, hostUp, wireVars, backendVars, mem, registryVars, clientVars>>

\* Another process or instance replaces the file; the instance is not told
FileEditedOutside(d) ==
    /\ fcp.disk # d
    /\ fcp' = [fcp EXCEPT !.disk = d]
    /\ cout' = StoreCall("outside", "edit", <<>>, None, None)
    /\ UNCHANGED <<configVars, secretVars, registry, hostUp, wireVars, backendVars, mem, registryVars, clientVars>>

----------------------------------------------------------------------------
\* The config specifications leave the secret resolver alone
QuietSecrets ==
    /\ environ = EmptyMap
    /\ dotenvFile = None
    /\ keychain = [available |-> FALSE, entries |-> EmptyMap]
    /\ hostSecrets = [ep \in EndpointNames |-> EmptyMap]
    /\ hostReady = [ep \in EndpointNames |-> TRUE]
    /\ sres = NewSecretResolver
    /\ sout = NoOutcome

\* The resolver specifications leave the stand-alone config stores alone
QuietUnits ==
    /\ mem = <<>>
    /\ fcp = [disk |-> MissingFile, cache |-> None]
    /\ cout = NoStoreCall
    /\ QuietRegistry
    /\ QuietClients
    /\ QuietWire
    /\ QuietBackends

----------------------------------------------------------------------------
(* Initial states *)

F_ai == ProviderConfig(N_ai, FALSE, None, <<"m0">>)
F_b == ProviderConfig(N_b, TRUE, Some("u0"), <<>>)
F_Ai == ProviderConfig(N_Ai, TRUE, None, <<"m3">>)

InitUserFiles == { MissingFile, CorruptFile, ConfigFile(<<F_ai, F_b>>, Some("d0")) }
InitWorkspaceFiles == { MissingFile, ConfigFile(<<F_Ai>>, None) }

InitHostSettings ==
    [ep \in EndpointNames |->
        IF ep = "vscode"
        THEN [user |-> <<F_b>>, workspace |-> <<F_Ai>>]
        ELSE [user |-> <<F_ai>>, workspace |-> <<>>]]

InitResolvers ==
    { NewResolver, WithWorkspace(WsPath),
      Resolver(None, <<"vscode">>, "VsCode"),
      Resolver(Some(WsPath), <<"vscode", "alt">>, "VsCode") }

InitShared ==
    /\ providers = EmptyMap
    /\ files \in [Scopes -> InitUserFiles \cup InitWorkspaceFiles]
    /\ files["user"] \in InitUserFiles
    /\ files["workspace"] \in InitWorkspaceFiles
    /\ registry \in SUBSET EndpointNames
    /\ hostUp = [ep \in EndpointNames |-> TRUE]
    /\ hostSettings = InitHostSettings
    /\ \E r \in InitResolvers :
          th = [t \in Threads |->
                  IdleThread(IF t = "t1" THEN r ELSE WithWorkspace(WsPath))]
    /\ QuietSecrets
    /\ QuietUnits

\* Calls run one at a time
Init ==
    /\ InitShared
    /\ opsLeft = MaxOps
    /\ concurrent = FALSE

\* Calls of the two threads overlap
InitConc ==
    /\ InitShared
    /\ opsLeft = MaxOpsConc
    /\ concurrent = TRUE

Next ==
    \/ \E t \in Threads, p \in ProviderInputs, scope \in Scopes : SaveProvider(t, p, scope)
    \/ \E t \in Threads : SavePersist(t)
    \/ \E t \in Threads : SaveRpc(t)
    \/ \E t \in Threads : SaveFileWrite(t)
    \/ \E t \in Threads : LoadFromSources(t)
    \/ \E t \in Threads, source \in {"Native", "VsCode"} : SetConfigSource(t, source)
    \/ \E t \in Threads, path \in {None, Some(WsPath)} : SetWorkspace(t, path)
    \/ \E t \in Threads : LoadWs(t)
    \/ \E t \in Threads : LoadRpc(t)
    \/ \E t \in Threads : LoadCommit(t)
    \/ \E t \in Threads, name \in ProviderNames, scope \in Scopes : RemoveProvider(t, name, scope)
    \/ \E t \in Threads : RemoveRpc(t)
    \/ \E t \in Threads : RemoveFileWrite(t)
    \/ \E t \in Threads, scope \in Scopes : GetProvidersAtScope(t, scope)
    \/ \E t \in Threads : ListSources(t)
    \/ \E t \in Threads, scope \in Scopes : GetWriteDestinationInfo(t, scope)
    \/ \E t \in Threads, name \in ProviderNames : ReadProvider(t, name)
    \/ \E t \in Threads, ep \in EndpointNames : AddRpcEndpoint(t, ep)
    \/ \E ep \in EndpointNames : RegisterRpcEndpoint(ep)
    \/ \E ep \in EndpointNames : UnregisterRpcEndpoint(ep)
    \/ \E ep \in EndpointNames : HostDown(ep)

Spec == Init /\ [][Next]_vars

SpecConc == InitConc /\ [][Next]_vars

----------------------------------------------------------------------------
(* Properties of the config resolver *)

Returned(t, op) == th[t].pc = "idle" /\ th[t].op = op /\ IsSome(th[t].result)
ReturnedOk(t, op) == Returned(t, op) /\ Unwrap(th[t].result).ok
ReturnedErr(t, op) == Returned(t, op) /\ ~Unwrap(th[t].result).ok

SameFields(e, p) ==
    /\ EqIgnoreAsciiCase(e.name, p.name)
    /\ e.enabled = p.enabled
    /\ e.api_base = p.api_base
    /\ e.models = p.models

\* get_provider(p.name) finds an entry and every entry it can find carries
\* p's fields; get_all_providers lists such an entry
CacheHolds(p) ==
    /\ None \notin GetProvider(providers, p.name)
    /\ \A h \in GetProvider(providers, p.name) : SameFields(Unwrap(h), p)
    /\ \E e \in GetAllProviders(providers) : SameFields(e, p)

\* The steps that write the cache: save_provider's insert, the commit of a load
CacheWriterStep ==
    \E u \in Threads :
        \/ th[u].pc = "idle" /\ th'[u].pc = "save_persist"
        \/ th[u].pc = "load_commit"

\* A get_provider call made by u in this step
ReadsInThisStep(u) ==
    /\ th[u].pc = "idle"
    /\ th'[u] # th[u]
    /\ th'[u].op = "get_provider"

\* C1: after save_provider(p, scope) returned Ok, the cache serves an entry
\* for p with p's enabled flag, api_base and models to get_provider and
\* get_all_providers of every instance, and only a later save or the commit
\* of a load changes what the cache serves.
C1_SavedProviderIsServed ==
    /\ [](\A t \in Threads :
            ReturnedOk(t, "save_provider") => CacheHolds(Unwrap(th[t].prov)))
    /\ [][\A t, u \in Threads :
            ( /\ ReturnedOk(t, "save_provider")
              /\ ReadsInThisStep(u)
              /\ EqIgnoreAsciiCase(th'[u].name, Unwrap(th[t].prov).name) )
            => /\ IsSome(Unwrap(th'[u].result).val)
               /\ SameFields(Unwrap(Unwrap(th'[u].result).val), Unwrap(th[t].prov))]_vars
    /\ [][providers' # providers => CacheWriterStep]_vars

\* A save returned Ok while the cache also holds another provider
C1_Witness ==
    \E t \in Threads :
        /\ ReturnedOk(t, "save_provider")
        /\ Cardinality(DOMAIN providers) >= 2
        /\ CacheHolds(Unwrap(th[t].prov))

SaveErrors ==
    { "RPC write failed", "No workspace path set for workspace-level config",
      "Failed to write config" }
    \cup { "RPC endpoint '" \o ep \o "' not found" : ep \in EndpointNames }

\* C2: from its first step on, and so before and during every persistence
\* attempt, a save_provider call has its record in the cache; a call that
\* returns an error has persisted nothing and leaves the record in the cache.
C2_FailedSaveKeepsRecord ==
    \A t \in Threads :
        (th[t].op = "save_provider" /\ ~ReturnedOk(t, "save_provider"))
        => /\ CacheHolds(Unwrap(th[t].prov))
           /\ ReturnedErr(t, "save_provider")
              => /\ th[t].wrote = {}
                 /\ Unwrap(th[t].result).val \in SaveErrors

\* The endpoint chosen as destination was unregistered before the write
C2_Witness ==
    \E t \in Threads :
        /\ ReturnedErr(t, "save_provider")
        /\ Unwrap(th[t].result).val = "RPC endpoint 'vscode' not found"
        /\ CacheHolds(Unwrap(th[t].prov))

\* The providers a parseable file holds
Held(f) == IF f.state = "ok" THEN f.providers ELSE <<>>

Names(ps, name) == { i \in 1..Len(ps) : EqIgnoreAsciiCase(ps[i].name, name) }

OtherScope(scope) == IF scope = "user" THEN "workspace" ELSE "user"

\* C3: when remove_provider(name, scope) returns Ok after taking the provider
\* out of the native file of that scope, the only place that held it, then
\* get_provider(name) returns None and get_all_providers does not list it.
C3_RemoveUpdatesCache ==
    [][\A t \in Threads :
        ( /\ th[t].pc = "remove_file_write"
          /\ ReturnedOk(t, "remove_provider")'
          /\ Names(Held(files[th[t].scope]), th[t].name) # {}
          /\ Names(Held(files[OtherScope(th[t].scope)]), th[t].name) = {} )
        => /\ GetProvider(providers', th[t].name) = {None}
           /\ \A e \in GetAllProviders(providers') :
                ~EqIgnoreAsciiCase(e.name, th[t].name)]_vars

\* remove_provider returned Ok, no native file names the provider any more,
\* and get_provider still finds it
C3_Witness ==
    \E t \in Threads :
        /\ ReturnedOk(t, "remove_provider")
        /\ th[t].wrote = {"file:" \o th[t].scope}
        /\ \A scope \in Scopes : Names(Held(files[scope]), th[t].name) = {}
        /\ None \notin GetProvider(providers, th[t].name)

\* C4: when a save_provider(p, scope) that returned Ok and a load_from_sources
\* overlapped and both have completed, the cache holds p.
C4_SaveSurvivesConcurrentLoad ==
    \A t, u \in Threads :
        (t # u /\ ReturnedOk(t, "save_provider") /\ Returned(u, "load_from_sources"))
        => CacheHolds(Unwrap(th[t].prov))

\* Both calls are over, p is in the user file the load reads, and the cache
\* has no entry for p at all
C4_Witness ==
    \E t, u \in Threads :
        /\ t # u
        /\ ReturnedOk(t, "save_provider")
        /\ th[t].wrote = {"file:user"}
        /\ Returned(u, "load_from_sources")
        /\ th[u].res.config_source = "Native"
        /\ \E i \in 1..Len(Held(files["user"])) :
              Held(files["user"])[i] = Unwrap(th[t].prov)
        /\ GetProvider(providers, Unwrap(th[t].prov).name) = {None}

RECURSIVE Concat(_)
Concat(ss) == IF ss = <<>> THEN <<>> ELSE Head(ss) \o Concat(Tail(ss))

\* The providers of one scope of the source set r selects, in probe order
SelectedScope(r, scope) ==
    IF r.config_source = "Native"
    THEN IF scope = "workspace" /\ ~IsSome(r.workspace_path) THEN <<>>
         ELSE Held(files[scope])
    ELSE Concat([i \in 1..Len(r.rpc_endpoints) |->
                    IF r.rpc_endpoints[i] \in registry /\ hostUp[r.rpc_endpoints[i]]
                    THEN hostSettings[r.rpc_endpoints[i]][scope] ELSE <<>>])

\* User scope overlaid by workspace scope: of the records whose names are
\* equal ignoring case, the last one stays
Overlay(r) ==
    LET all == SelectedScope(r, "user") \o SelectedScope(r, "workspace")
    IN { all[i] : i \in { j \in 1..Len(all) :
                            \A k \in Names(all, all[j].name) : k <= j } }

LoadOps == {"load_from_sources", "set_config_source", "set_workspace"}

\* C5: when a load by resolver r has completed, no writer and no change of
\* the registry or the hosts having run beside it, the cache holds exactly
\* r's user-scope providers overlaid by its workspace-scope providers.
C5_CacheIsUserOverlaidByWorkspace ==
    \A t \in Threads :
        (\E op \in LoadOps : Returned(t, op)) /\ ~th[t].disturbed
        => { Persisted(e) : e \in GetAllProviders(providers) } = Overlay(th[t].res)

\* Two registered, reachable endpoints: the second endpoint's user record
\* has replaced the first endpoint's workspace record of the same name
C5_Witness ==
    \E t \in Threads :
        /\ Returned(t, "load_from_sources")
        /\ ~th[t].disturbed
        /\ th[t].res.rpc_endpoints = <<"vscode", "alt">>
        /\ \E e \in GetAllProviders(providers) :
              /\ e.source = "rpc:alt:user"
              /\ Names(hostSettings["vscode"]["workspace"], e.name) # {}

ConfigOps ==
    { "load_from_sources", "get_providers_at_scope", "list_sources",
      "save_provider", "remove_provider", "get_write_destination_info" }

\* C6: an operation of a resolver whose config_source is Native pings or
\* calls no RPC endpoint, and no operation probes both the native files and
\* the RPC endpoints.
C6_NativeNeverProbesRpc ==
    \A t \in Threads :
        th[t].op \in ConfigOps
        => /\ th[t].res.config_source = "Native" => ~th[t].rpcProbed
           /\ ~(th[t].rpcProbed /\ th[t].fileProbed)

\* get_providers_at_scope of a Native resolver has pinged a registered endpoint
C6_Witness ==
    \E t \in Threads :
        /\ Returned(t, "get_providers_at_scope")
        /\ th[t].res.config_source = "Native"
        /\ th[t].rpcProbed
        /\ th[t].fileProbed

\* The destination the claim names, for resolver r and the registry as it is
ClaimedDestination(r, scope) ==
    LET reg == { i \in 1..Len(r.rpc_endpoints) : r.rpc_endpoints[i] \in registry }
    IN IF r.config_source = "VsCode" /\ reg # {}
       THEN "rpc:" \o r.rpc_endpoints[CHOOSE i \in reg : \A j \in reg : i <= j]
                   \o ":" \o scope
       ELSE "file:" \o scope

C8_FileKeepsOtherProviders ==
    [][\A t \in Threads :
        (th[t].pc = "save_file_write" /\ ReturnedOk(t, "save_provider")')
        => LET p == Unwrap(th[t].prov)
               old == Held(files[th[t].scope])
               new == Held(files'[th[t].scope])
               at == Names(old, p.name)
           IN /\ files'[th[t].scope].state = "ok"
              /\ files'[OtherScope(th[t].scope)] = files[OtherScope(th[t].scope)]
              /\ IF at = {} THEN new = Append(old, p)
                 ELSE /\ Len(new) = Len(old)
                      /\ \A i \in 1..Len(old) :
                           new[i] = IF i = CHOOSE j \in at : \A k \in at : j <= k
                                    THEN p ELSE old[i]]_vars

\* p replaced the first entry of the user file, the second entry stayed, and
\* the cache holds a record of the second entry's name that the file does not
C8_Witness ==
    \E t \in Threads :
        /\ ReturnedOk(t, "save_provider")
        /\ th[t].wrote = {"file:user"}
        /\ Len(Held(files["user"])) = 2
        /\ Held(files["user"])[1] = Unwrap(th[t].prov)
        /\ \E e \in GetAllProviders(providers) :
              /\ EqIgnoreAsciiCase(e.name, Held(files["user"])[2].name)
              /\ Persisted(e) # Held(files["user"])[2]

----------------------------------------------------------------------------
(* The secret resolver's specification: the backends hold what Init draws,
   the resolver is reconfigured and asked for keys *)

V_M_HYPHEN_K_API_KEY == ToUppercase(S_m_k) \o ApiKeySuffix

InitEnvirons ==
    { EmptyMap,
      [n \in {V_OPENAI_API_KEY} |-> ""],
      [n \in {V_OPENAI_API_KEY, V_M_HYPHEN_K_API_KEY} |->
          IF n = V_OPENAI_API_KEY THEN "e1" ELSE "e2"],
      [n \in {V_OPENAI_API_KEY, S_openai} |->
          IF n = V_OPENAI_API_KEY THEN "e1" ELSE "e3"] }

InitDotenvFiles ==
    { None,
      Some(<<[k |-> V_OPENAI_API_KEY, v |-> ""], [k |-> V_OPENAI_API_KEY, v |-> "d1"],
             [k |-> V_M_K_API_KEY, v |-> "d2"]>>) }

InitKeychains ==
    { [available |-> FALSE, entries |-> [k \in {S_openai} |-> "k1"]],
      [available |-> TRUE, entries |-> EmptyMap],
      [available |-> TRUE, entries |-> [k \in {S_openai} |-> "k1"]] }

InitHostSecrets ==
    { [ep \in EndpointNames |-> EmptyMap],
      [ep \in EndpointNames |->
          IF ep = "vscode" THEN [k \in {S_openai} |-> "r1"] ELSE EmptyMap],
      [ep \in EndpointNames |->
          IF ep = "vscode" THEN [k \in {S_openai} |-> ""]
          ELSE [k \in {S_openai} |-> "r2"]] }

InitSecret ==
    /\ providers = EmptyMap
    /\ files = [scope \in Scopes |-> MissingFile]
    /\ hostSettings = InitHostSettings
    /\ th = [t \in Threads |-> IdleThread(NewResolver)]
    /\ opsLeft = 0
    /\ concurrent = FALSE
    /\ registry \in { {}, {"vscode"}, {"vscode", "alt"} }
    /\ hostUp \in { [ep \in EndpointNames |-> TRUE],
                    [ep \in EndpointNames |-> ep # "vscode"] }
    /\ registry # {"vscode", "alt"} => hostUp = [ep \in EndpointNames |-> TRUE]
    /\ environ \in InitEnvirons
    /\ dotenvFile \in InitDotenvFiles
    /\ keychain \in InitKeychains
    /\ hostSecrets \in InitHostSecrets
    /\ hostReady = [ep \in EndpointNames |-> TRUE]
    /\ sres \in { NewSecretResolver, WithConfig(FALSE, TRUE, <<"vscode", "alt">>) }
    /\ sout = NoOutcome
    /\ QuietUnits

NextSecret ==
    \/ \E key \in SecretKeys : CallResolve(key)
    \/ \E key \in SecretKeys : CallResolveAsync(key)
    \/ \E keys \in SecretKeyLists : CallGetAllSourceInfo(keys)
    \/ CallListSources
    \/ \E check \in BOOLEAN : SetCheckEnvironment(check)
    \/ \E check \in BOOLEAN : SetCheckDotenv(check)
    \/ \E store \in {"VsCode", "Keychain"} : SetSecretsStore(store)
    \/ \E name \in EndpointNames : SecretAddRpcEndpoint(name)

SpecSecret == InitSecret /\ [][NextSecret]_vars

----------------------------------------------------------------------------
(* Properties of the secret resolver *)

\* The sources in the order the claim gives: environment and .env if
\* enabled, the preferred primary store (its endpoints in list order), then
\* the stores of `sources` that are neither the environment nor the keychain
ClaimedOrder(r) ==
    (IF r.check_environment THEN <<"environment">> ELSE <<>>)
    \o (IF r.check_dotenv THEN <<"dotenv">> ELSE <<>>)
    \o (IF r.secrets_store = "VsCode"
        THEN [i \in 1..Len(r.rpc_endpoints) |-> "rpc:" \o r.rpc_endpoints[i]]
        ELSE <<"keychain">>)
    \o SelectSeq(r.sources,
                 LAMBDA st : st \notin {"EnvSecretStore", "KeychainSecretStore"})

NonEmpty(o) == IF IsSome(o) /\ Unwrap(o) # "" THEN o ELSE None

\* The non-empty value a source of the claimed order holds for key
HeldBy(src, key) ==
    CASE src = "environment" -> NonEmpty(EnvGet(environ, key))
      [] src = "dotenv"      -> NonEmpty(TryDotenvFile(dotenvFile, key))
      [] src = "keychain"    ->
           IF keychain.available THEN NonEmpty(KeychainGet(keychain, key)) ELSE None
      [] OTHER ->
           LET eps == { ep \in registry : src = "rpc:" \o ep }
           IN IF eps = {} THEN None
              ELSE NonEmpty(RpcSecretGet(hostUp, hostSecrets, CHOOSE ep \in eps : TRUE, key))

\* The source a probe went to
ProbeSource(p) ==
    CASE p.kind = "rpc"      -> "rpc:" \o p.name
      [] p.kind = "fallback" -> p.name
      [] OTHER               -> p.kind

\* C9: resolve and resolve_async return the hit of the earliest source, in
\* the order environment (if enabled), .env (if enabled), primary store,
\* other fallback stores, that holds a non-empty value for the key, having
\* probed no source after it; they return None only when no source holds one.
C9_EarliestSourceWins ==
    sout.called
    => LET order == ClaimedOrder(sres)
           hits == { i \in 1..Len(order) : IsSome(HeldBy(order[i], sout.key)) }
           first == FirstIndex(hits)
       IN /\ IsSome(sout.result)
             => /\ hits # {}
                /\ Unwrap(sout.result).value = Unwrap(HeldBy(order[first], sout.key))
                /\ Unwrap(sout.result).source = order[first]
                /\ \A n \in 1..Len(sout.probes) :
                     \E i \in 1..first : ProbeSource(sout.probes[n]) = order[i]
          /\ sout.result = None => hits = {}

\* The first endpoint's empty value was returned as the hit while the next
\* endpoint of the list holds a non-empty value
C9_Witness ==
    /\ sout.called
    /\ sres.check_environment
    /\ sres.secrets_store = "VsCode"
    /\ sres.rpc_endpoints = <<"vscode", "alt">>
    /\ IsSome(sout.result)
    /\ Unwrap(sout.result).value = ""
    /\ Unwrap(sout.result).source = "rpc:vscode"
    /\ IsSome(HeldBy("rpc:alt", sout.key))

\* A probe that reads the process environment
ReadsEnvironment(p) ==
    p.kind = "environment" \/ (p.kind = "fallback" /\ p.name = StoreName("EnvSecretStore"))

\* C10: with check_environment false, the value resolve or resolve_async
\* returns was not read from the process environment.
C10_DisabledEnvironmentNeverUsed ==
    (sout.called /\ ~sres.check_environment /\ IsSome(sout.result))
    => ~ReadsEnvironment(sout.probes[Len(sout.probes)])

\* new(), set_check_environment(false), resolve("openai") with
\* OPENAI_API_KEY set: the environment's value comes back, tagged "env"
C10_Witness ==
    /\ sres = [NewSecretResolver EXCEPT !.check_environment = FALSE]
    /\ sout.called
    /\ ~sout.async
    /\ sout.key = S_openai
    /\ environ = [n \in {V_OPENAI_API_KEY, V_M_HYPHEN_K_API_KEY} |->
                    IF n = V_OPENAI_API_KEY THEN "e1" ELSE "e2"]
    /\ sout.result = Some(ResolvedSecret("e1", "env", "env"))

\* A probe that reads the OS credential store
ReadsKeychain(p) ==
    p.kind = "keychain" \/ (p.kind = "fallback" /\ p.name = StoreName("KeychainSecretStore"))

ProbingOps == {"resolve", "resolve_async", "get_all_source_info", "list_sources"}

Unanswered(i) ==
    /\ \A j \in 1..(i - 1) : sres.rpc_endpoints[j] # sres.rpc_endpoints[i]
    /\ sres.rpc_endpoints[i] \in registry
    /\ ~hostUp[sres.rpc_endpoints[i]]
    /\ \E n \in 1..Len(sout.probes) :
          sout.probes[n].kind = "rpc" /\ sout.probes[n].name = sres.rpc_endpoints[i]

\* The entries of the list after number i that are registered, answer and
\* hold the key
AnsweringAfter(i) ==
    { j \in (i + 1)..Len(sres.rpc_endpoints) :
        /\ sres.rpc_endpoints[j] \in registry
        /\ hostUp[sres.rpc_endpoints[j]]
        /\ sout.key \in DOMAIN hostSecrets[sres.rpc_endpoints[j]] }

\* C12: a resolve or resolve_async call that meets an unreachable endpoint
\* still returns: the hit of the next endpoint of the list that holds the
\* key, else the hit of a fallback source that holds it, else None; never a
\* hit of the unreachable endpoint.
C12_UnreachableEndpointSkipped ==
    (sout.called /\ sres.secrets_store = "VsCode")
    => \A i \in 1..Len(sres.rpc_endpoints) :
          Unanswered(i)
          => LET later == AnsweringAfter(i)
                 ep == sres.rpc_endpoints[FirstIndex(later)]
                 env == EnvGet(environ, sout.key)
             IN IF later # {}
                THEN sout.result = Some(ResolvedSecret(hostSecrets[ep][sout.key],
                                                       "rpc:" \o ep, ep \o " SecretStorage"))
                ELSE IF \E n \in 1..Len(sres.sources) : sres.sources[n] = "EnvSecretStore"
                        /\ IsSome(env)
                THEN sout.result = Some(ResolvedSecret(Unwrap(env), "env", "env"))
                ELSE sout.result = None

\* resolve_async pinged "vscode" in vain and returned the value "alt" holds
C12_Witness ==
    /\ sout.called
    /\ sout.async
    /\ sres.secrets_store = "VsCode"
    /\ sres.rpc_endpoints = <<"vscode", "alt">>
    /\ Unanswered(1)
    /\ sout.result = Some(ResolvedSecret("r2", "rpc:alt", "alt SecretStorage"))

OpenAiKeys == {S_openai, S_OpenAI, V_OPENAI_API_KEY}

\* OPENAI_API_KEY is set to a non-empty value and a resolve call for one of
\* the three spellings was made with environment checking enabled
OpenAiFromEnvironment ==
    /\ sout.called
    /\ sres.check_environment
    /\ sout.key \in OpenAiKeys
    /\ V_OPENAI_API_KEY \in DOMAIN environ
    /\ environ[V_OPENAI_API_KEY] # ""

\* C13 as stated: with environment checking enabled and OPENAI_API_KEY set
\* to a non-empty value v, resolve of "openai", "OpenAI" and "OPENAI_API_KEY"
\* returns v with source "environment", whatever the keychain and the
\* endpoints hold.
C13_AsStated ==
    OpenAiFromEnvironment
    => /\ IsSome(sout.result)
       /\ Unwrap(sout.result).value = environ[V_OPENAI_API_KEY]
       /\ Unwrap(sout.result).source = "environment"

\* C13, amended: the same, provided no variable named exactly like the key
\* as given is set to a non-empty value; such a variable is read first.
C13_EnvironmentResolution ==
    (OpenAiFromEnvironment /\ (sout.key = V_OPENAI_API_KEY
                               \/ EnvVarNonEmpty(environ, sout.key) = None))
    => /\ IsSome(sout.result)
       /\ Unwrap(sout.result).value = environ[V_OPENAI_API_KEY]
       /\ Unwrap(sout.result).source = "environment"

\* resolve("OpenAI") returned the environment's value while the keychain
\* holds another value for "openai"
C13_Witness ==
    /\ OpenAiFromEnvironment
    /\ sout.key = S_OpenAI
    /\ ~sout.async
    /\ keychain.available
    /\ S_openai \in DOMAIN keychain.entries
    /\ sout.result = Some(ResolvedSecret("e1", "environment",
                                         <<"Environment variable $", V_OPENAI_API_KEY>>))

----------------------------------------------------------------------------
(* The secret resolver's writes: store, delete and the preview of the
   destination, on backends that hold other keys as well *)

D_Auto == <<"A", "u", "t", "o">>
D_rpc == <<"r", "p", "c">>

\* The destination strings callers pass
StoreNames ==
    { D_auto, D_keychain, D_vscode, D_rpc_colon \o D_alt, D_rpc_colon, D_Auto, D_rpc, <<>> }

InitStoreKeychains ==
    { [available |-> FALSE, entries |-> EmptyMap],
      [available |-> TRUE, entries |-> [k \in {S_m_k} |-> "k2"]],
      [available |-> TRUE, entries |-> [k \in {S_openai, S_m_k} |->
                                          IF k = S_openai THEN "k1" ELSE "k2"]] }

InitStoreHostSecrets ==
    { [ep \in EndpointNames |-> [k \in {S_m_k} |-> "r3"]],
      [ep \in EndpointNames |->
          IF ep = "vscode" THEN [k \in {S_openai, S_m_k} |-> IF k = S_openai THEN "r1" ELSE "r3"]
          ELSE [k \in {S_m_k} |-> "r3"]] }

InitStore ==
    /\ providers = EmptyMap
    /\ files = [scope \in Scopes |-> MissingFile]
    /\ hostSettings = InitHostSettings
    /\ th = [t \in Threads |-> IdleThread(NewResolver)]
    /\ opsLeft = 0
    /\ concurrent = FALSE
    /\ registry \in { {}, {"vscode"}, {"vscode", "alt"} }
    /\ hostUp \in { [ep \in EndpointNames |-> TRUE],
                    [ep \in EndpointNames |-> ep # "vscode"] }
    /\ environ = EmptyMap
    /\ dotenvFile = None
    /\ keychain \in InitStoreKeychains
    /\ hostSecrets \in InitStoreHostSecrets
    /\ hostReady = [ep \in EndpointNames |-> TRUE]
    /\ sres \in { NewSecretResolver, WithConfig(FALSE, TRUE, <<"vscode", "alt">>) }
    /\ sout = NoOutcome
    /\ QuietUnits

NextStore ==
    \/ \E preferred_store \in StoreNames : CallStore(S_openai, "w1", preferred_store)
    \/ \E preferred_store \in StoreNames : CallDelete(S_openai, preferred_store)
    \/ CallSecretWriteDestinationInfo
    \/ \E store \in {"VsCode", "Keychain"} : SetSecretsStore(store)

SpecStore == InitStore /\ [][NextStore]_vars

\* The store accesses among the probes of the outcome o
StoreProbes(o) ==
    { o.probes[n] : n \in { m \in 1..Len(o.probes) : o.probes[m].call = "store" } }

\* The indices of the resolver's list whose endpoint is registered and answers
AvailableEndpoints ==
    { i \in 1..Len(sres.rpc_endpoints) :
        sres.rpc_endpoints[i] \in registry /\ hostUp[sres.rpc_endpoints[i]] }

NoStoreErrors ==
    { Err(<<"No secret store available (no RPC endpoint and keychain unavailable)">>) }

\* C14: store(key, value, "auto") goes, with secrets_store = VsCode, to the
\* first endpoint of the list that is registered and reachable, and with
\* secrets_store = Keychain to the OS credential store if it is available;
\* a successful call leaves the value there and changes nothing else; with
\* no such store the call fails with the no-store error and writes nothing.
C14_AutoStoreRouting ==
    [][(sout'.op = "store" /\ sout' # sout /\ sout'.preferred_store = D_auto)
       => IF sres.secrets_store = "VsCode" /\ AvailableEndpoints # {}
          THEN LET ep == sres.rpc_endpoints[FirstIndex(AvailableEndpoints)]
               IN /\ StoreProbes(sout') = {Probe("rpc", ep, "store")}
                  /\ keychain' = keychain
                  /\ \A other \in EndpointNames \ {ep} : hostSecrets'[other] = hostSecrets[other]
                  /\ Unwrap(sout'.result).ok
                     => hostSecrets'[ep] = MapInsert(hostSecrets[ep], sout'.key, sout'.value)
          ELSE IF sres.secrets_store = "Keychain" /\ keychain.available
          THEN /\ StoreProbes(sout') = {Probe("keychain", "", "store")}
               /\ hostSecrets' = hostSecrets
               /\ Unwrap(sout'.result).ok
                  => keychain'.entries = MapInsert(keychain.entries, sout'.key, sout'.value)
          ELSE /\ sout'.result \in NoStoreErrors
               /\ StoreProbes(sout') = {}
               /\ keychain' = keychain
               /\ hostSecrets' = hostSecrets]_vars

\* "vscode" is registered and does not answer, "alt" is registered and
\* answers: the call failed on "vscode" and nothing was stored
C14_Witness ==
    /\ sout.op = "store"
    /\ sout.preferred_store = D_auto
    /\ sres.secrets_store = "VsCode"
    /\ sres.rpc_endpoints = <<"vscode", "alt">>
    /\ registry = {"vscode", "alt"}
    /\ ~hostUp["vscode"] /\ hostUp["alt"]
    /\ sout.result = Err(<<"RPC endpoint '", D_vscode, "' not reachable">>)
    /\ StoreProbes(sout) = {}

----------------------------------------------------------------------------
\* A destination string that is none of "auto", "keychain", "vscode" and
\* "rpc:<name>"
UnknownDestination(s) ==
    /\ s \notin {D_auto, D_keychain, D_vscode}
    /\ ~IsSome(StripPrefix(s, D_rpc_colon))

\* C15: store and delete with an unknown destination string return an error,
\* make no availability probe and no RPC or keychain call, and leave the
\* keychain and every endpoint's secrets as they were.
C15_UnknownDestinationFails ==
    [][(sout'.op \in {"store", "delete"} /\ sout' # sout
        /\ UnknownDestination(sout'.preferred_store))
       => /\ ~Unwrap(sout'.result).ok
          /\ sout'.probes = <<>>
          /\ keychain' = keychain
          /\ hostSecrets' = hostSecrets]_vars

\* delete("openai", "Auto") failed while the keychain, available, holds the key
C15_Witness ==
    /\ sout.op = "delete"
    /\ sout.preferred_store = D_Auto
    /\ sout.result = Err(<<"Unknown store: ", D_Auto>>)
    /\ keychain.available
    /\ S_openai \in DOMAIN keychain.entries

----------------------------------------------------------------------------
(* Both resolvers side by side: the preview of the write destination and
   the writes themselves *)

InitPreview ==
    /\ providers = EmptyMap
    /\ files \in [Scopes -> {MissingFile, ConfigFile(<<F_ai, F_b>>, Some("d0"))}]
    /\ files["workspace"] = MissingFile
    /\ registry \in { {}, {"vscode"}, {"vscode", "alt"} }
    /\ hostUp \in { [ep \in EndpointNames |-> TRUE],
                    [ep \in EndpointNames |-> ep # "vscode"] }
    /\ hostSettings = InitHostSettings
    /\ \E r \in InitResolvers :
          th = [t \in Threads |->
                  IdleThread(IF t = "t1" THEN r ELSE WithWorkspace(WsPath))]
    /\ opsLeft = MaxOpsPreview
    /\ concurrent = FALSE
    /\ environ = EmptyMap
    /\ dotenvFile = None
    /\ keychain \in { [available |-> FALSE, entries |-> EmptyMap],
                      [available |-> TRUE, entries |-> [k \in {S_m_k} |-> "k2"]] }
    /\ hostSecrets = [ep \in EndpointNames |-> [k \in {S_m_k} |-> "r3"]]
    /\ hostReady = [ep \in EndpointNames |-> TRUE]
    /\ sres \in { NewSecretResolver, WithConfig(FALSE, TRUE, <<"vscode", "alt">>) }
    /\ sout = NoOutcome
    /\ QuietUnits

NextPreview ==
    \/ \E t \in Threads, scope \in Scopes : GetWriteDestinationInfo(t, scope)
    \/ \E t \in Threads, p \in ProviderInputs, scope \in Scopes : SaveProvider(t, p, scope)
    \/ \E t \in Threads : SavePersist(t)
    \/ \E t \in Threads : SaveRpc(t)
    \/ \E t \in Threads : SaveFileWrite(t)
    \/ CallSecretWriteDestinationInfo
    \/ CallStore(S_openai, "w1", D_auto)
    \/ \E store \in {"VsCode", "Keychain"} : SetSecretsStore(store)

SpecPreview == InitPreview /\ [][NextPreview]_vars

\* The config resolver's part: get_write_destination_info changes nothing
\* but the caller's result; the destination a save chooses is the one whose
\* id the preview gives in that state, and the save writes nowhere else
PreviewConfig(t) ==
    LET c == th[t]
        id == WriteDestinationId(c.res, registry, c.scope)
    IN /\ (th'[t].op = "get_write_destination_info" /\ th'[t] # c)
          => /\ UNCHANGED <<providers, files, registry, hostUp, hostSettings>>
             /\ UNCHANGED <<secretVars, unitVars>>
             /\ \A u \in Threads \ {t} : th'[u].res = th[u].res
             /\ th'[t].res = c.res
       /\ (c.pc = "save_persist" /\ th'[t].pc # "save_persist")
          => /\ IsSome(th'[t].dest)
             /\ LET dest == Unwrap(th'[t].dest)
                IN id = IF dest.kind = "rpc"
                        THEN "rpc:" \o dest.endpoint \o ":" \o dest.scope
                        ELSE "native:" \o dest.scope
       /\ (c.pc = "save_rpc" /\ hostSettings' # hostSettings)
          => /\ Unwrap(c.dest).kind = "rpc"
             /\ \A ep \in EndpointNames, scope \in Scopes :
                   hostSettings'[ep][scope] # hostSettings[ep][scope]
                   => ep = Unwrap(c.dest).endpoint /\ scope = Unwrap(c.dest).scope
       /\ (c.pc = "save_file_write" /\ files' # files)
          => /\ Unwrap(c.dest).kind = "native"
             /\ \A scope \in Scopes :
                   files'[scope] # files[scope] => scope = Unwrap(c.dest).scope

\* The secret resolver's part: get_write_destination_info changes nothing
\* but the caller's result; store(key, value, "auto") goes to the store the
\* preview names in that state, and the id is "none" exactly when the call
\* fails with the no-store error
PreviewSecret ==
    LET id == SecretWriteDestinationId(sres)
    IN /\ (sout'.op = "get_write_destination_info" /\ sout' # sout)
          => /\ sout'.result = Some(id)
             /\ UNCHANGED <<keychain, hostSecrets, registry, hostUp, environ, dotenvFile, sres>>
             /\ UNCHANGED configVars
       /\ (sout'.op = "store" /\ sout' # sout /\ sout'.preferred_store = D_auto)
          => /\ id = "none" <=> sout'.result \in NoStoreErrors
             /\ id = "none" => keychain' = keychain /\ hostSecrets' = hostSecrets
             /\ id = "keychain"
                => /\ hostSecrets' = hostSecrets
                   /\ StoreProbes(sout') = {Probe("keychain", "", "store")}
             /\ \A ep \in EndpointNames :
                   id = "rpc:" \o ep
                   => /\ keychain' = keychain
                      /\ StoreProbes(sout') \subseteq {Probe("rpc", ep, "store")}
                      /\ \A other \in EndpointNames \ {ep} :
                            hostSecrets'[other] = hostSecrets[other]
             /\ id \in {"none", "keychain"} \cup { "rpc:" \o ep : ep \in EndpointNames }

\* C16: get_write_destination_info of either resolver changes no cache,
\* store, file or endpoint state, and its id names the destination of a
\* write made in the same state: of save_provider(p, scope) for the config
\* resolver, of store(key, value, "auto") for the secret resolver, whose id
\* is "none" exactly when the store call fails for lack of a store.
C16_PreviewNamesWriteDestination ==
    [][PreviewSecret /\ \A t \in Threads : PreviewConfig(t)]_vars

\* A secret was stored on "vscode" by store(.., "auto"), and a preview of
\* the config resolver returned an RPC destination
C16_Witness ==
    /\ sout.op = "store"
    /\ sout.preferred_store = D_auto
    /\ sout.result = Ok(<<"vscode SecretStorage">>)
    /\ S_openai \in DOMAIN hostSecrets["vscode"]
    /\ \E t \in Threads :
          /\ Returned(t, "get_write_destination_info")
          /\ th[t].result = Ok("rpc:vscode:user")

----------------------------------------------------------------------------
(* The config stores on their own *)

InitConfigStore ==
    /\ providers = EmptyMap
    /\ files = [scope \in Scopes |-> MissingFile]
    /\ registry = {}
    /\ hostUp = [ep \in EndpointNames |-> TRUE]
    /\ hostSettings = InitHostSettings
    /\ th = [t \in Threads |-> IdleThread(NewResolver)]
    /\ opsLeft = 0
    /\ concurrent = FALSE
    /\ QuietSecrets
    /\ mem \in { <<>>, <<F_ai, F_b>> }
    /\ fcp \in { [disk |-> d, cache |-> None] :
                   d \in { MissingFile, CorruptFile, ConfigFile(<<F_ai, F_b>>, Some("d0")) } }
    /\ cout = NoStoreCall
    /\ QuietRegistry
    /\ QuietClients
    /\ QuietWire
    /\ QuietBackends

NextConfigStore ==
    \/ \E name \in ProviderNames, config \in ProviderInputs : MemoryUpdateProvider(name, config)
    \/ \E config \in ProviderInputs : MemoryAddProvider(config)
    \/ \E name \in ProviderNames : MemoryRemoveProvider(name)
    \/ \E name \in ProviderNames, config \in ProviderInputs : FileUpdateProvider(name, config)
    \/ \E config \in ProviderInputs : FileAddProvider(config)
    \/ \E name \in ProviderNames : FileRemoveProvider(name)

SpecConfigStore == InitConfigStore /\ [][NextConfigStore]_vars

\* No two entries of the list ps have names that are equal ignoring case
UniqueNames(ps) ==
    \A i, j \in 1..Len(ps) : i # j => ToLowercase(ps[i].name) # ToLowercase(ps[j].name)

\* C17: provider names stay case-insensitively unique within a config store:
\* after any sequence of add_provider, update_provider and remove_provider
\* calls on a store that starts with unique names, no two of its providers
\* have names that are equal ignoring case.
C17_NamesStayUnique ==
    /\ UniqueNames(mem)
    /\ UniqueNames(FileProviders(fcp))
    /\ UniqueNames(fcp.disk.providers)

\* update_provider("b", config named "Ai") succeeded on a store that holds "ai"
C17_Witness ==
    /\ cout.store = "memory"
    /\ cout.op = "update_provider"
    /\ cout.name = N_b
    /\ cout.result = Ok(<<>>)
    /\ Unwrap(cout.config).name = N_Ai
    /\ Len(mem) = 2
    /\ mem[1] = F_ai
    /\ mem[2] = Unwrap(cout.config)

----------------------------------------------------------------------------
\* A provider named `name`, ignoring case, is in the list ps
Present(ps, name) ==
    \E i \in 1..Len(ps) : ToLowercase(ps[i].name) = ToLowercase(name)

\* The providers of the store a call was made on, as get_providers gives them
StoredBefore(store) == IF store = "memory" THEN mem ELSE FileProviders(fcp)
StoredAfter(store) == IF store = "memory" THEN mem' ELSE FileProviders(fcp')

\* The claimed failures of the call recorded in cout': add_provider of a
\* present name fails with ProviderExists, update_provider and
\* remove_provider of an absent name with ProviderNotFound, and the store
\* keeps its list
FailsAsClaimed ==
    LET c == cout'
        before == StoredBefore(c.store)
        kept == /\ StoredAfter(c.store) = before
                /\ mem' = mem
                /\ fcp'.disk = fcp.disk
    IN /\ (c.op = "add_provider" /\ Present(before, c.name))
          => c.result = Err(ProviderExists(c.name)) /\ kept
       /\ (c.op \in {"update_provider", "remove_provider"} /\ ~Present(before, c.name))
          => c.result = Err(ProviderNotFound(c.name)) /\ kept

----------------------------------------------------------------------------
(* The endpoint registry on its own *)

RegistryInputs ==
    { RpcEndpoint("vscode", "/tmp/vscode.sock"),
      RpcEndpoint("vscode", "/tmp/other.sock"),
      RpcEndpoint("alt", "/tmp/alt.sock") }

RegistryNames == EndpointNames \cup {"unknown"}

InitRegistry ==
    /\ providers = EmptyMap
    /\ files = [scope \in Scopes |-> MissingFile]
    /\ registry = {}
    /\ hostUp = [ep \in EndpointNames |-> TRUE]
    /\ hostSettings = InitHostSettings
    /\ th = [t \in Threads |-> IdleThread(NewResolver)]
    /\ opsLeft = 0
    /\ concurrent = FALSE
    /\ QuietSecrets
    /\ mem = <<>>
    /\ fcp = [disk |-> MissingFile, cache |-> None]
    /\ cout = NoStoreCall
    /\ QuietRegistry
    /\ QuietClients
    /\ QuietWire
    /\ QuietBackends

NextRegistry ==
    \/ \E endpoint \in RegistryInputs : Register(endpoint)
    \/ \E name \in RegistryNames : Unregister(name)
    \/ \E name \in RegistryNames : Get(name)
    \/ List

SpecRegistry == InitRegistry /\ [][NextRegistry]_vars

\* The last register or unregister call for the name n, 0 if there is none
LastEvent(n) ==
    LET hits == { i \in 1..Len(regLog) : regLog[i].name = n }
    IN IF hits = {} THEN 0 ELSE CHOOSE i \in hits : \A j \in hits : j <= i

\* The endpoint given to the most recent register(n) that no unregister(n)
\* followed, if any
LastRegistered(n) ==
    IF LastEvent(n) # 0 /\ regLog[LastEvent(n)].op = "register"
    THEN regLog[LastEvent(n)].endpoint
    ELSE None

\* C19: after any sequence of register and unregister calls, get(n) returns
\* the endpoint given to the most recent register with name n if no
\* unregister(n) came after it, and None otherwise; list() contains n
\* exactly once in the first case and not at all in the second.
C19_RegistryFollowsLastCall ==
    /\ rout.op = "get" => rout.result = LastRegistered(rout.name)
    /\ rout.op = "list"
       => \A n \in RegistryNames :
             Cardinality({ i \in 1..Len(rout.result) : rout.result[i] = n })
               = IF IsSome(LastRegistered(n)) THEN 1 ELSE 0

\* "vscode" was registered twice with different sockets and "alt" was
\* registered and unregistered; get("vscode") returned the second endpoint
C19_Witness ==
    /\ rout.op = "get"
    /\ rout.name = "vscode"
    /\ rout.result = Some(RpcEndpoint("vscode", "/tmp/other.sock"))
    /\ \E i, j \in 1..Len(regLog) :
          /\ i < j
          /\ regLog[i] = RegistryEvent("register", "vscode", Some(RpcEndpoint("vscode", "/tmp/vscode.sock")))
          /\ regLog[j] = RegistryEvent("register", "vscode", Some(RpcEndpoint("vscode", "/tmp/other.sock")))
    /\ \E i \in 1..Len(regLog) : regLog[i].op = "unregister" /\ regLog[i].name = "alt"

----------------------------------------------------------------------------
(* The RPC clients on their own *)

InitClients ==
    /\ providers = EmptyMap
    /\ files = [scope \in Scopes |-> MissingFile]
    /\ registry = {}
    /\ hostUp = [ep \in EndpointNames |-> TRUE]
    /\ hostSettings = InitHostSettings
    /\ th = [t \in Threads |-> IdleThread(NewResolver)]
    /\ opsLeft = 0
    /\ concurrent = FALSE
    /\ QuietSecrets
    /\ mem = <<>>
    /\ fcp = [disk |-> MissingFile, cache |-> None]
    /\ cout = NoStoreCall
    /\ QuietRegistry
    /\ QuietClients
    /\ QuietWire
    /\ QuietBackends

NextClients ==
    \/ NewClient
    \/ \E client \in 1..MaxClients : CallBegin(client)
    \/ \E k \in 1..MaxRequests : CallEnd(k)

SpecClients == InitClients /\ [][NextClients]_vars

\* C20: request ids are strictly increasing from one process-local counter:
\* of any two requests issued in the process, through the same or different
\* RpcClient or RPC store instances, the later carries a strictly greater id,
\* and no two requests that are in flight together carry the same id.
C20_RequestIdsIncrease ==
    \A k, l \in 1..Len(reqLog) :
        k < l => /\ reqLog[k].id < reqLog[l].id
                 /\ (~reqLog[k].answered /\ ~reqLog[l].answered)
                    => reqLog[k].id # reqLog[l].id

\* Two clients have each sent their first request, both with id 0, and
\* neither has been answered
C20_Witness ==
    /\ Len(clients) = 2
    /\ Len(reqLog) = 2
    /\ reqLog[1] = Request(1, 0, FALSE)
    /\ reqLog[2] = Request(2, 0, FALSE)

----------------------------------------------------------------------------
(* One RpcClient calling a host over its socket *)

Tokens == { <<"t">>, <<"k", "e-acute">> }
Methods == { <<"g", "e", "t">> }

\* The params callers of the model pass, as serde_json::to_value gives them
P_object == JObject(MapInsert(EmptyMap, K_key, JString(<<"v">>)))
P_objectWithAuth ==
    JObject(MapInsert(MapInsert(EmptyMap, K_key, JString(<<"e-acute">>)),
                      K_auth, JString(<<"x">>)))
P_objectWithData == JObject(MapInsert(EmptyMap, K_data, JNumber(1)))
ParamsInputs ==
    { JNull, JBool(TRUE), JNumber(7), JString(<<"s", "e-acute">>),
      JArray(<<"[", "1", "]">>), JObject(EmptyMap), P_object, P_objectWithAuth,
      P_objectWithData }

\* A host's message: the framing of the protocol around a text
HostMessage(text) ==
    AsBytes(ContentLengthHeader \o <<" ">> \o Decimal(StrLen(text)) \o CRLF \o CRLF \o text)

T_ok == ToJsonString(JObject(MapInsert(EmptyMap, K_result, R_ok)))
H_other == <<"k", "e", "y", ":", "1">>

\* Streams a host sends and then closes: well-framed ones, and broken ones
WellFramed == { HostMessage(ToJsonString(v)) : v \in ResponseValues }
ExtraHeader == AsBytes(H_other \o CRLF) \o HostMessage(T_ok)
BareNewlines == AsBytes(ContentLengthHeader \o Decimal(StrLen(T_ok)) \o <<"\n", "\n">> \o T_ok)
NotJson == HostMessage(<<"x">>)
ClosedAtOnce == <<>>
ClosedInHeaderLine == AsBytes(ContentLengthHeader \o <<" ", "2">>)
ClosedInHeaders == AsBytes(ContentLengthHeader \o <<" ", "2">> \o CRLF)
ClosedInBody == SubSeq(HostMessage(T_ok), 1, Len(HostMessage(T_ok)) - 1)
BadLength == AsBytes(ContentLengthHeader \o <<" ", "x">> \o CRLF \o CRLF \o T_ok)
NoLength == AsBytes(H_other \o CRLF \o CRLF \o T_ok)
LowercaseLength ==
    AsBytes(<<"c","o","n","t","e","n","t","-","l","e","n","g","t","h",":","2">>
            \o CRLF \o CRLF \o T_ok)
BadUtf8Header == <<"FF", "\r", "\n">> \o HostMessage(T_ok)
Replies ==
    WellFramed \cup
    { ExtraHeader, BareNewlines, NotJson, ClosedAtOnce, ClosedInHeaderLine,
      ClosedInHeaders, ClosedInBody, BadLength, NoLength, LowercaseLength, BadUtf8Header }

InitPeers ==
    { Peer(FALSE, FALSE, <<>>), Peer(TRUE, FALSE, <<>>) } \cup
    { Peer(TRUE, TRUE, reply) : reply \in Replies }

InitWire ==
    /\ providers = EmptyMap
    /\ files = [scope \in Scopes |-> MissingFile]
    /\ registry = {}
    /\ hostUp = [ep \in EndpointNames |-> TRUE]
    /\ hostSettings = InitHostSettings
    /\ th = [t \in Threads |-> IdleThread(NewResolver)]
    /\ opsLeft = 0
    /\ concurrent = FALSE
    /\ QuietSecrets
    /\ mem = <<>>
    /\ fcp = [disk |-> MissingFile, cache |-> None]
    /\ cout = NoStoreCall
    /\ QuietRegistry
    /\ QuietClients
    /\ peer \in InitPeers
    /\ rpcClient \in { NewRpcClient(auth_token) : auth_token \in Tokens }
    /\ QuietBackends

NextWire ==
    \/ \E method \in Methods, params \in ParamsInputs : RpcCall(method, params)
    \/ \E method \in Methods, params \in ParamsInputs : RpcCallAsync(method, params)
    \/ Ping
    \/ PingAsync

SpecWire == InitWire /\ [][NextWire]_vars

Called == rpcClient.op \in {"call", "call_async"}
Pinged == rpcClient.op \in {"ping", "ping_async"}

\* The params member of the request the client built
RequestParams == rpcClient.request.fields[K_params]

\* The params carry the client's token under auth
CarriesAuth ==
    /\ RequestParams.kind = "object"
    /\ K_auth \in DOMAIN RequestParams.fields
    /\ RequestParams.fields[K_auth] = JString(rpcClient.auth_token)

\* Object params keep their other members
KeepsMembers ==
    rpcClient.params.kind = "object" =>
        /\ DOMAIN RequestParams.fields = DOMAIN rpcClient.params.fields \cup {K_auth}
        /\ \A k \in DOMAIN rpcClient.params.fields \ {K_auth} :
               RequestParams.fields[k] = rpcClient.params.fields[k]

\* The params are auth and, under data, the caller's value
Wrapped ==
    /\ DOMAIN RequestParams.fields = {K_auth, K_data}
    /\ RequestParams.fields[K_data] = rpcClient.params

\* C21: every request of call and call_async has object params whose auth
\* member is the client's token; object params keep their other members,
\* with a caller's auth replaced; null params become an object with auth
\* alone; any other value is placed unchanged under data next to auth.
C21_ParamsCarryAuth ==
    Called =>
        /\ CarriesAuth
        /\ KeepsMembers
        /\ rpcClient.params.kind = "null" => DOMAIN RequestParams.fields = {K_auth}
        /\ rpcClient.params.kind \notin {"object", "null"} => Wrapped

\* C21 as stated: every value that is not an object, null included, is
\* placed under data
C21_AsStated ==
    Called =>
        /\ CarriesAuth
        /\ KeepsMembers
        /\ rpcClient.params.kind # "object" => Wrapped

\* C21 witness: a call whose object params brought their own auth, sent
\* with the client's token in its place
C21_Witness ==
    /\ Called
    /\ rpcClient.params = P_objectWithAuth
    /\ RequestParams.fields[K_auth] = JString(rpcClient.auth_token)
    /\ RequestParams.fields[K_key] = JString(<<"e-acute">>)

\* The client connected and wrote its request
Wrote == rpcClient.op # "none" /\ rpcClient.sent.written # <<>>

\* The JSON text of the request, and its bytes
RequestText == ToJsonString(rpcClient.request)
RequestBody == AsBytes(RequestText)

\* The bytes are the header with the body's length in bytes, a blank line,
\* and the body
FramedRequest ==
    rpcClient.sent.written =
        AsBytes(ContentLengthHeader \o <<" ">> \o Decimal(Len(RequestBody)) \o CRLF \o CRLF)
        \o RequestBody

\* The peer that read the header and then that many bytes holds the text
PeerHoldsRequest ==
    /\ rpcClient.sent.received = Some(RequestBody)
    /\ FromUtf8(Unwrap(rpcClient.sent.received)) = Some(RequestText)

\* A response framed the same way reaches parse_response whole
ReadsFramedResponses ==
    \A v \in ResponseValues :
        (Called /\ peer.accepts /\ peer.reply = HostMessage(ToJsonString(v))) =>
            rpcClient.sent.result = ParseResponse(v)

\* C22: the bytes written for a request are a Content-Length header whose
\* decimal value is the byte length of the JSON body, a blank line and the
\* body; a peer reading the header and then exactly that many bytes gets the
\* request's JSON unchanged; responses framed so are read by the same rule.
C22_FramingRoundTrip ==
    /\ Wrote => FramedRequest /\ PeerHoldsRequest
    /\ (rpcClient.op # "none" /\ peer.accepts) => Wrote
    /\ ReadsFramedResponses

\* C22 witness: a request whose text has a two-byte character, so that its
\* byte length exceeds its character count, read whole by the peer, and
\* answered by a response whose text has one as well
C22_Witness ==
    /\ Called
    /\ Wrote
    /\ Len(RequestBody) > Len(RequestText)
    /\ rpcClient.sent.received = Some(RequestBody)
    /\ peer.reply = HostMessage(ToJsonString(JObject(MapInsert(EmptyMap, K_error, R_error))))
    /\ rpcClient.sent.result = RpcErrorResponse(0 - 7, <<"n", "e-acute">>)

\* The answer of the last call or ping
Answer == rpcClient.sent.result

\* Streams with malformed headers, with no Content-Length header, or closed
\* before the response is complete
BrokenReplies ==
    { BadLength, BadUtf8Header, NoLength, LowercaseLength, ClosedAtOnce,
      ClosedInHeaderLine, ClosedInHeaders, ClosedInBody }

\* C23: a call that cannot connect fails with ConnectionFailed; a call that
\* connected and got malformed headers, no Content-Length header, or an end
\* of stream before the complete response (in the headers or in the body)
\* fails with InvalidResponse; neither kind is reported for the other case.
C23_FailureKinds ==
    rpcClient.op # "none" =>
        /\ ~peer.accepts => Answer.kind = "ConnectionFailed"
        /\ (peer.accepts /\ peer.reply \in BrokenReplies) => Answer.kind = "InvalidResponse"
        /\ Answer.kind = "ConnectionFailed" => ~peer.accepts
        /\ Answer.kind = "InvalidResponse" => peer.accepts

\* C23 witness: the host closed the stream one byte short of the body it
\* announced, and the call's error is Io
C23_Witness ==
    /\ Called
    /\ peer.accepts
    /\ peer.reply = ClosedInBody
    /\ Answer.kind = "Io"

\* The host's reply is the well-framed text of v
AnsweredWith(v) == Called /\ peer.accepts /\ peer.reply = HostMessage(ToJsonString(v))

HasMember(v, key) == v.kind = "object" /\ key \in DOMAIN v.fields

\* The answer carries the code and the message of the error member; a
\* code that is no integer reads as -1, a message that is no string as
\* "Unknown error"
CarriesError(error) ==
    /\ Answer.kind = "RpcError"
    /\ IF HasMember(error, K_code) /\ error.fields[K_code].kind = "number"
       THEN JNumber(Answer.code) = error.fields[K_code]
       ELSE Answer.code = 0 - 1
    /\ IF HasMember(error, K_message) /\ error.fields[K_message].kind = "string"
       THEN JString(Answer.message) = error.fields[K_message]
       ELSE Answer.message = UnknownError

\* The result member has the shape of the requested type, { ok: bool }
HasShape(result) == HasMember(result, K_ok) /\ result.fields[K_ok].kind = "bool"

\* C24: for a well-framed JSON response, call fails with RpcError carrying
\* the response's code and message whenever the response has an error
\* member, a result member notwithstanding; otherwise it returns the result
\* member as the requested type, and fails when result is absent or has the
\* wrong shape; a response with an error member never gives success.
C24_ErrorMemberWins ==
    \A v \in ResponseValues :
        AnsweredWith(v) =>
            /\ HasMember(v, K_error) => (~Answer.ok /\ CarriesError(v.fields[K_error]))
            /\ (~HasMember(v, K_error) /\ HasMember(v, K_result) /\ HasShape(v.fields[K_result])) =>
                   (Answer.ok /\ Answer.value.fields[K_ok] = v.fields[K_result].fields[K_ok])
            /\ (~HasMember(v, K_error) /\ ~HasMember(v, K_result)) =>
                   Answer.kind = "InvalidResponse"
            /\ (~HasMember(v, K_error) /\ HasMember(v, K_result) /\ ~HasShape(v.fields[K_result])) =>
                   Answer.kind = "Json"

\* C24 witness: a response holding both an error and a well-shaped result,
\* answered with the error's code and message
C24_Witness ==
    /\ AnsweredWith(JObject(MapInsert(MapInsert(EmptyMap, K_error, R_error), K_result, R_ok)))
    /\ Answer = RpcErrorResponse(0 - 7, <<"n", "e-acute">>)

\* C25: ping and ping_async on a client whose socket path does not exist
\* return ConnectionFailed having made no connect call and no read or write
\* on a stream, so nothing that could wait for a timeout.
C25_PingFailsFast ==
    (Pinged /\ ~peer.exists) =>
        /\ Answer.kind = "ConnectionFailed"
        /\ rpcClient.sent.connects = 0
        /\ rpcClient.sent.written = <<>>

\* C25 witness: a ping on a missing socket path, answered with
\* "Socket does not exist"
C25_Witness ==
    /\ rpcClient.op = "ping_async"
    /\ ~peer.exists
    /\ Answer = RpcFailure("ConnectionFailed", "Socket does not exist")
    /\ rpcClient.sent.connects = 0

----------------------------------------------------------------------------
(* A KeychainSecretStore on a platform that may misbehave *)

InitKeyrings ==
    { NewKeyring(EmptyMap), NewKeyring(MapInsert(EmptyMap, "k1", "v2")) }

InitKeyring ==
    /\ providers = EmptyMap
    /\ files = [scope \in Scopes |-> MissingFile]
    /\ registry = {}
    /\ hostUp = [ep \in EndpointNames |-> TRUE]
    /\ hostSettings = InitHostSettings
    /\ th = [t \in Threads |-> IdleThread(NewResolver)]
    /\ opsLeft = 0
    /\ concurrent = FALSE
    /\ QuietSecrets
    /\ mem = <<>>
    /\ fcp = [disk |-> MissingFile, cache |-> None]
    /\ cout = NoStoreCall
    /\ QuietRegistry
    /\ QuietClients
    /\ QuietWire
    /\ keyring \in InitKeyrings
    /\ QuietMemory
    /\ QuietChain
    /\ QuietToken

NextKeyring ==
    \/ \E key \in SecretKeyNames, value \in SecretValues, b \in KeyringBehaviours :
           KeychainStore(key, value, b)
    \/ \E key \in SecretKeyNames, b \in DeleteBehaviours : KeychainDelete(key, b)

SpecKeyring == InitKeyring /\ [][NextKeyring]_vars

\* The errors store gives when the read-back did not confirm the write
VerificationErrors == { MismatchError, ReadBackError }

\* C26: KeychainSecretStore.store(key, value) returns Ok only if, after
\* set_password returned Ok, get_password on a second, newly created entry
\* returned exactly value; when that read fails or returns another value the
\* result is a verification error, which differs from the write-failure
\* error, and never Ok.
C26_StoreVerifiesReadBack ==
    keyring.op = "store" =>
        /\ keyring.result.ok =>
               /\ keyring.wrote
               /\ keyring.handles = 2
               /\ keyring.read_made
               /\ keyring.read = Some(keyring.value)
               /\ MemoryGet(keyring.entries, keyring.key) = Some(keyring.value)
        /\ (keyring.read_made /\ keyring.read # Some(keyring.value)) =>
               /\ ~keyring.result.ok
               /\ keyring.result \in VerificationErrors
        /\ WriteError \notin VerificationErrors
        /\ (keyring.wrote /\ ~keyring.result.ok) => keyring.result # WriteError

\* C26 witness: set_password returned Ok without persisting the value, the
\* key's old value was read back through the second entry, and store failed
\* with the mismatch error
C26_Witness ==
    /\ keyring.op = "store"
    /\ keyring.wrote
    /\ keyring.handles = 2
    /\ keyring.read = Some("v2")
    /\ keyring.value = "v1"
    /\ keyring.result = MismatchError

----------------------------------------------------------------------------
(* One MemorySecretStore under store, delete, clear and its queries *)

InitMemory ==
    /\ providers = EmptyMap
    /\ files = [scope \in Scopes |-> MissingFile]
    /\ registry = {}
    /\ hostUp = [ep \in EndpointNames |-> TRUE]
    /\ hostSettings = InitHostSettings
    /\ th = [t \in Threads |-> IdleThread(NewResolver)]
    /\ opsLeft = 0
    /\ concurrent = FALSE
    /\ QuietSecrets
    /\ mem = <<>>
    /\ fcp = [disk |-> MissingFile, cache |-> None]
    /\ cout = NoStoreCall
    /\ QuietRegistry
    /\ QuietClients
    /\ QuietWire
    /\ QuietKeyring
    /\ msec = NewMemorySecretStore
    /\ QuietChain
    /\ QuietToken

NextMemory ==
    \/ \E key \in SecretKeyNames, value \in SecretValues : MemStore(key, value)
    \/ \E key \in SecretKeyNames : MemDelete(key)
    \/ MemClear
    \/ \E key \in SecretKeyNames : MemGet(key)
    \/ \E key \in SecretKeyNames : MemHas(key)
    \/ MemLen

SpecMemory == InitMemory /\ [][NextMemory]_vars

RECURSIVE LatestStored(_, _)
\* The value of the latest store(key, v) of the calls that no later
\* delete(key) or clear() followed
LatestStored(calls, key) ==
    IF calls = <<>> THEN None
    ELSE LET last == calls[Len(calls)]
         IN IF last.op = "clear" \/ (last.op = "delete" /\ last.key = key) THEN None
            ELSE IF last.op = "store" /\ last.key = key THEN Some(last.value)
            ELSE LatestStored(SubSeq(calls, 1, Len(calls) - 1), key)

\* C27: on one MemorySecretStore, after any sequence of store, delete and
\* clear calls, get(k) returns the value of the latest store(k, v) that no
\* later delete(k) or clear() followed, and None otherwise; has(k) equals
\* get(k).is_some(), and len() is the number of keys that have such a value.
C27_MemoryStoreFollowsCalls ==
    /\ msec.out.op = "get" => msec.out.value = LatestStored(msec.log, msec.out.key)
    /\ msec.out.op = "has" => msec.out.flag = IsSome(LatestStored(msec.log, msec.out.key))
    /\ msec.out.op = "len" =>
           msec.out.count =
               Cardinality({ k \in SecretKeyNames : IsSome(LatestStored(msec.log, k)) })
    /\ \A k \in SecretKeyNames :
           /\ MemoryGet(msec.secrets, k) = LatestStored(msec.log, k)
           /\ MemoryHas(msec.secrets, k) = IsSome(MemoryGet(msec.secrets, k))

\* C27 witness: k1 and k2 stored, then k1 deleted; get(k1) is None and one
\* key is left
C27_Witness ==
    /\ msec.log = <<SecretCall("store", "k1", "v1"), SecretCall("store", "k2", "v2"),
                    SecretCall("delete", "k1", "")>>
    /\ msec.out = SecretAnswer("get", "k1", None, FALSE, 0)
    /\ MemoryLen(msec.secrets) = 1

----------------------------------------------------------------------------
(* A ChainSecretStore over memory, environment, keychain and RPC members *)

S_k1v1 == MapInsert(EmptyMap, "k1", "v1")
S_k1v2 == MapInsert(EmptyMap, "k1", "v2")

InitMembers ==
    { Member("memory", TRUE, FALSE, EmptyMap),
      Member("memory", TRUE, FALSE, S_k1v1),
      Member("env", TRUE, FALSE, S_k1v2),
      Member("keychain", TRUE, FALSE, S_k1v2),
      Member("keychain", FALSE, FALSE, S_k1v1),
      Member("keychain", TRUE, TRUE, MapInsert(S_k1v1, "k2", "v2")),
      Member("rpc", FALSE, FALSE, S_k1v2) }

\* The member lists a chain is built over: new and with_write_store panic
\* on an empty list
InitStores == UNION { [1..n -> InitMembers] : n \in 1..MaxMembers }

\* with_write_store panics on an index outside the list
InitChains ==
    { ChainNew(stores) : stores \in InitStores } \cup
    UNION { { ChainWithWriteStore(stores, i) : i \in 0..(Len(stores) - 1) } :
            stores \in InitStores }

InitChain ==
    /\ providers = EmptyMap
    /\ files = [scope \in Scopes |-> MissingFile]
    /\ registry = {}
    /\ hostUp = [ep \in EndpointNames |-> TRUE]
    /\ hostSettings = InitHostSettings
    /\ th = [t \in Threads |-> IdleThread(NewResolver)]
    /\ opsLeft = 0
    /\ concurrent = FALSE
    /\ QuietSecrets
    /\ mem = <<>>
    /\ fcp = [disk |-> MissingFile, cache |-> None]
    /\ cout = NoStoreCall
    /\ QuietRegistry
    /\ QuietClients
    /\ QuietWire
    /\ QuietKeyring
    /\ QuietMemory
    /\ chain \in InitChains
    /\ QuietToken

NextChain ==
    \/ \E key \in SecretKeyNames : CallChainGet(key)
    \/ \E key \in SecretKeyNames, value \in SecretValues : CallChainStore(key, value)
    \/ \E key \in SecretKeyNames : CallChainDelete(key)

SpecChain == InitChain /\ [][NextChain]_vars

\* Member i, as the last call found it, is available and holds the key
Serves(i) ==
    /\ chain.before[i].available
    /\ IsSome(MemberGet(chain.before[i], chain.key))

\* C28: ChainSecretStore.get(k) returns the value of the first member, in
\* chain order, that is available and holds k, and None when no available
\* member holds k; a later member's value is never returned while an
\* earlier available member holds k.
C28_FirstAvailableHolderAnswers ==
    chain.op = "get" =>
        /\ IsSome(chain.answer) =>
               \E i \in 1..Len(chain.before) :
                   /\ Serves(i)
                   /\ chain.answer = MemberGet(chain.before[i], chain.key)
                   /\ \A j \in 1..(i - 1) : ~Serves(j)
        /\ ~IsSome(chain.answer) => \A i \in 1..Len(chain.before) : ~Serves(i)

\* C28 witness: both members hold k1 with different values, and get(k1)
\* answers the first member's
C28_Witness ==
    /\ chain.op = "get"
    /\ chain.key = "k1"
    /\ Len(chain.before) = 2
    /\ MemberGet(chain.before[1], "k1") = Some("v1")
    /\ MemberGet(chain.before[2], "k1") = Some("v2")
    /\ chain.before[1].available
    /\ chain.answer = Some("v1")

\* Member m takes part in deletion: it is not read-only, and its
\* delete call does not fail
AcceptsDeletion(m) ==
    /\ m.kind # "env"
    /\ m.kind = "keychain" => (m.available /\ ~m.denies)

OthersUntouched ==
    \A i \in 1..Len(chain.before) :
        i # chain.write_store_index + 1 => chain.stores[i] = chain.before[i]

\* C30: ChainSecretStore.store(k, v) writes to exactly one member, the one
\* at write_store_index (0 unless set at construction), returns that
\* member's result, and leaves every other member's contents unchanged.
C30_StoreWritesOneMember ==
    /\ chain.ctor = "new" => chain.write_store_index = 0
    /\ chain.op = "store" =>
           LET at == chain.write_store_index + 1
               done == MemberStore(chain.before[at], chain.key, chain.value)
           IN /\ at \in 1..Len(chain.before)
              /\ Len(chain.stores) = Len(chain.before)
              /\ chain.result = done.result
              /\ chain.stores[at] = done.member
              /\ chain.result.ok => chain.stores[at].secrets[chain.key] = chain.value
              /\ OthersUntouched

\* C30 witness: a chain built with write index 1 over two memory stores;
\* store(k2, v1) landed in the second and left the first without k2
C30_Witness ==
    /\ chain.op = "store"
    /\ chain.ctor = "with_write_store"
    /\ chain.write_store_index = 1
    /\ chain.key = "k2"
    /\ chain.result = StoreOk
    /\ chain.before[1].kind = "memory"
    /\ chain.before[2].kind = "memory"
    /\ ~MemberHas(chain.before[2], "k2")
    /\ MemberGet(chain.stores[2], "k2") = Some("v1")
    /\ ~MemberHas(chain.stores[1], "k2")

----------------------------------------------------------------------------
\* get_all_source_info: how often one batch call checks reachability and
\* availability

\* The accesses of the last call that are pings of endpoint ep
PingsOf(ep) ==
    { n \in 1..Len(sout.probes) :
        /\ sout.probes[n].kind = "rpc"
        /\ sout.probes[n].name = ep
        /\ sout.probes[n].call = "ping" }

\* The accesses of the last call that ask whether the keychain is available
AvailabilityChecks ==
    { n \in 1..Len(sout.probes) :
        sout.probes[n].kind = "keychain" /\ sout.probes[n].call = "is_available" }

\* The places of ep in the resolver's endpoint list
EntriesOf(ep) == { i \in 1..Len(sres.rpc_endpoints) : sres.rpc_endpoints[i] = ep }

\* C31, amended: one get_all_source_info(keys) call pings each endpoint at
\* most once per entry of rpc_endpoints that names it (so at most once when
\* no name is listed twice) and asks the keychain for its availability at
\* most once, however many keys are passed.
C31_OneCheckPerListEntry ==
    sout.op = "get_all_source_info"
    => /\ \A ep \in EndpointNames : Cardinality(PingsOf(ep)) <= Cardinality(EntriesOf(ep))
       /\ Cardinality(AvailabilityChecks) <= 1

\* C31 as stated: at most one ping per endpoint, whatever the endpoint list
C31_AsStated ==
    sout.op = "get_all_source_info"
    => /\ \A ep \in EndpointNames : Cardinality(PingsOf(ep)) <= 1
       /\ Cardinality(AvailabilityChecks) <= 1

\* A batch call for two keys that pinged an endpoint once and asked it for
\* both keys
C31_Witness ==
    /\ sout.op = "get_all_source_info"
    /\ Len(sout.key) = 2
    /\ \E ep \in EndpointNames :
          /\ Cardinality(PingsOf(ep)) = 1
          /\ Cardinality({ n \in 1..Len(sout.probes) :
                             /\ sout.probes[n].kind = "rpc"
                             /\ sout.probes[n].name = ep
                             /\ sout.probes[n].call = "get" }) = 2

----------------------------------------------------------------------------
(* One FileConfigProvider instance: writes, reads, reload and edits of the
   file made elsewhere *)

ImportLists == { <<>>, <<F_Ai>>, <<F_b, F_ai>> }

DefaultsInputs == { "d1" }

OutsideFiles == { MissingFile, CorruptFile, ConfigFile(<<F_Ai>>, None) }

InitFileCache ==
    /\ providers = EmptyMap
    /\ files = [scope \in Scopes |-> MissingFile]
    /\ registry = {}
    /\ hostUp = [ep \in EndpointNames |-> TRUE]
    /\ hostSettings = InitHostSettings
    /\ th = [t \in Threads |-> IdleThread(NewResolver)]
    /\ opsLeft = 0
    /\ concurrent = FALSE
    /\ QuietSecrets
    /\ mem = <<>>
    /\ fcp \in { [disk |-> d, cache |-> None] :
                   d \in { MissingFile, CorruptFile, ConfigFile(<<F_ai, F_b>>, Some("d0")) } }
    /\ cout = NoStoreCall
    /\ QuietRegistry
    /\ QuietClients
    /\ QuietWire
    /\ QuietBackends

NextFileCache ==
    \/ \E name \in ProviderNames, config \in ProviderInputs : FileUpdateProvider(name, config)
    \/ \E config \in ProviderInputs : FileAddProvider(config)
    \/ \E name \in ProviderNames : FileRemoveProvider(name)
    \/ \E ps \in ImportLists : FileImportProviders(ps)
    \/ \E d \in DefaultsInputs : FileSetDefaults(d)
    \/ FileReload
    \/ CallFileGetProviders
    \/ CallFileGetDefaults
    \/ \E d \in OutsideFiles : FileEditedOutside(d)

SpecFileCache == InitFileCache /\ [][NextFileCache]_vars

FileWriteOps ==
    {"add_provider", "update_provider", "remove_provider", "import_providers", "set_defaults"}

\* What the reads of provider f are taken from
ReadConfig(f) == GetConfig(f.cache, f.disk)

\* This step is a write call of the instance that returned Ok
WriteSucceeds == cout'.store = "file" /\ cout'.op \in FileWriteOps /\ cout'.result = Ok(<<>>)

\* This step is a write call of the instance that returned an error
WriteFails == cout'.store = "file" /\ cout'.op \in FileWriteOps /\ cout'.result # Ok(<<>>)

ReloadSucceeds == cout'.op = "reload" /\ cout'.result = Ok(<<>>)

\* The configuration a successful write call leaves, from its arguments and
\* what the instance read before it
WrittenBy(call, before) ==
    CASE call.op = "add_provider" ->
           [before EXCEPT !.providers = Append(@, Unwrap(call.config))]
      [] call.op = "update_provider" ->
           [before EXCEPT !.providers =
               [i \in 1..Len(@) |-> IF i = Position(@, call.name)
                                    THEN Unwrap(call.config) ELSE @[i]]]
      [] call.op = "remove_provider" ->
           [before EXCEPT !.providers =
               SelectSeqBy(@, { i \in 1..Len(@) :
                                  ~EqIgnoreAsciiCase(@[i].name, call.name) })]
      [] call.op = "import_providers" -> [before EXCEPT !.providers = call.config]
      [] call.op = "set_defaults" -> [before EXCEPT !.defaults = call.name]

\* The parts of C32 that do not concern a failing write: a successful write
\* leaves cache and file equal to what it wrote; a cache that is set changes
\* only by a successful write or reload; get_providers returns the cached
\* list; a successful reload leaves the cache equal to the file.
CacheFollowsWritesAndReload ==
    /\ WriteSucceeds
       => /\ fcp'.cache = Some(WrittenBy(cout', Unwrap(ReadConfig(fcp))))
          /\ Load(fcp'.disk) = fcp'.cache
    /\ (IsSome(fcp.cache) /\ ~WriteSucceeds /\ ~ReloadSucceeds) => fcp'.cache = fcp.cache
    /\ (cout'.op = "get_providers" /\ IsSome(fcp.cache))
       => cout'.config = Unwrap(fcp.cache).providers /\ fcp' = fcp
    /\ (cout'.op = "get_defaults" /\ IsSome(fcp.cache))
       => cout'.name = Unwrap(fcp.cache).defaults /\ fcp' = fcp
    /\ ReloadSucceeds => fcp'.cache = Load(fcp.disk) /\ ReadConfig(fcp') = Load(fcp'.disk)

----------------------------------------------------------------------------
(* The forms of secret probing side by side: resolve, resolve_async and
   get_all_source_info, over hosts that may be down, or up and reporting
   not ready *)

InitForms ==
    /\ providers = EmptyMap
    /\ files = [scope \in Scopes |-> MissingFile]
    /\ hostSettings = InitHostSettings
    /\ th = [t \in Threads |-> IdleThread(NewResolver)]
    /\ opsLeft = 0
    /\ concurrent = FALSE
    /\ registry = {"vscode", "alt"}
    /\ hostUp \in { [ep \in EndpointNames |-> TRUE],
                    [ep \in EndpointNames |-> ep # "vscode"] }
    /\ hostReady \in { [ep \in EndpointNames |-> TRUE],
                       [ep \in EndpointNames |-> ep # "vscode"] }
    /\ environ \in { EmptyMap,
                     [n \in {V_OPENAI_API_KEY, V_M_HYPHEN_K_API_KEY} |->
                         IF n = V_OPENAI_API_KEY THEN "e1" ELSE "e2"] }
    /\ dotenvFile \in InitDotenvFiles
    /\ keychain \in { [available |-> FALSE, entries |-> [k \in {S_openai} |-> "k1"]],
                      [available |-> TRUE, entries |-> [k \in {S_openai} |-> "k1"]] }
    /\ hostSecrets \in InitHostSecrets
    /\ sres \in { NewSecretResolver, WithConfig(FALSE, TRUE, <<"vscode", "alt">>) }
    /\ sout = NoOutcome
    /\ QuietUnits

NextForms ==
    \/ \E key \in SecretKeys : CallResolve(key)
    \/ \E key \in SecretKeys : CallResolveAsync(key)
    \/ \E keys \in SecretKeyLists : CallGetAllSourceInfo(keys)
    \/ \E check \in BOOLEAN : SetCheckEnvironment(check)
    \/ \E check \in BOOLEAN : SetCheckDotenv(check)
    \/ \E store \in {"VsCode", "Keychain"} : SetSecretsStore(store)

SpecForms == InitForms /\ [][NextForms]_vars

\* C33: resolve_async and resolve have the same outcome: for every key and
\* every state of environment, .env file, keychain and RPC endpoints, what
\* the one returned is what the other returns in the same state: a secret
\* exactly when the other returns one, with the same value and source.
C33_AsyncFormSameOutcome ==
    sout.called => sout.result = Resolve(sres, sout.key, ~sout.async).hit

\* resolve_async returned a secret of the vscode host, which answers its ping
C33_Witness ==
    /\ sout.op = "resolve_async"
    /\ IsSome(sout.result)
    /\ Unwrap(sout.result).source = "rpc:vscode"
    /\ sout.result = Resolve(sres, sout.key, FALSE).hit

\* C34: get_all_source_info agrees with per-key probing: for every key in
\* keys, the batch result for that key is present exactly when
\* get_source_info(key) in the same state is present, and both name the
\* same source.
C34_BatchAgreesWithPerKey ==
    sout.op = "get_all_source_info"
    => \A i \in 1..Len(sout.key) :
          LET batch == sout.result[sout.key[i]]
              single == GetSourceInfo(sres, sout.key[i])
          IN /\ IsSome(batch) <=> IsSome(single)
             /\ IsSome(batch) /\ IsSome(single) => Unwrap(batch)[1] = Unwrap(single)[1]

\* A batch call for two keys whose answers are those of get_source_info,
\* one of them from the environment
C34_Witness ==
    /\ sout.op = "get_all_source_info"
    /\ Len(sout.key) = 2
    /\ \E i \in 1..2 : /\ IsSome(sout.result[sout.key[i]])
                       /\ Unwrap(sout.result[sout.key[i]])[1] = "environment"
    /\ \A i \in 1..2 :
          /\ IsSome(sout.result[sout.key[i]]) <=> IsSome(GetSourceInfo(sres, sout.key[i]))
          /\ IsSome(sout.result[sout.key[i]])
             => Unwrap(sout.result[sout.key[i]])[1] = Unwrap(GetSourceInfo(sres, sout.key[i]))[1]

----------------------------------------------------------------------------
(* The non-blocking load path *)

InitAsyncLoad ==
    /\ InitShared
    /\ opsLeft = MaxOps
    /\ concurrent = FALSE

NextAsyncLoad ==
    \/ \E t \in Threads : LoadFromSourcesAsync(t)
    \/ \E t \in Threads : ReloadAsync(t)
    \/ \E t \in Threads : GetAllProvidersAsync(t)
    \/ \E t \in Threads : LoadWs(t)
    \/ \E t \in Threads : LoadRpc(t)
    \/ \E t \in Threads : LoadCommit(t)
    \/ \E ep \in EndpointNames : RegisterRpcEndpoint(ep)
    \/ \E ep \in EndpointNames : HostDown(ep)

SpecAsyncLoad == InitAsyncLoad /\ [][NextAsyncLoad]_vars

AsyncLoadOps == {"load_from_sources_async", "reload_async", "get_all_providers_async"}

\* C35: the non-blocking load path never uses a blocking RPC form:
\* load_from_sources_async, reload_async and get_all_providers_async reach
\* RPC endpoints only through ping_async and call_async.
C35_AsyncLoadNeverBlocks ==
    \A t \in Threads :
        th[t].op \in AsyncLoadOps => th[t].rpcForms \subseteq {"ping_async", "call_async"}

\* reload_async has finished after asking a registered, answering endpoint
\* for its providers
C35_Witness ==
    \E t \in Threads :
        /\ th[t].op = "reload_async"
        /\ th[t].pc = "idle"
        /\ th[t].result = Ok("loaded")
        /\ th[t].res.config_source = "VsCode"
        /\ "call" \in th[t].rpcForms

----------------------------------------------------------------------------
(* The global provider cache under names in several spellings *)

N_e == <<SmallWideLetter>>
N_E == <<CapitalWideLetter>>

F_e == ProviderConfig(N_e, FALSE, Some("u2"), <<"m4">>)

\* The records saved and the names looked up, toggled and updated
CacheInputs == { F_ai, F_e }
CacheNames == { N_Ai, N_E, N_b }

InitCache ==
    /\ providers = EmptyMap
    /\ files \in { [scope \in Scopes |-> MissingFile],
                   [scope \in Scopes |->
                       IF scope = "user" THEN ConfigFile(<<F_ai, F_b>>, Some("d0"))
                       ELSE MissingFile] }
    /\ registry \in { {}, {"vscode"} }
    /\ hostUp = [ep \in EndpointNames |-> TRUE]
    /\ hostSettings = InitHostSettings
    /\ \E r \in { NewResolver, Resolver(None, <<"vscode">>, "VsCode") } :
          th = [t \in Threads |-> IdleThread(IF t = "t1" THEN r ELSE WithWorkspace(WsPath))]
    /\ opsLeft = MaxOps
    /\ concurrent = FALSE
    /\ QuietSecrets
    /\ QuietUnits

NextCache ==
    \/ \E t \in Threads, p \in CacheInputs, scope \in Scopes : SaveProvider(t, p, scope)
    \/ \E t \in Threads, name \in CacheNames, enabled \in BOOLEAN, scope \in Scopes :
          ToggleProvider(t, name, enabled, scope)
    \/ \E t \in Threads, name \in CacheNames, scope \in Scopes :
          UpdateProviderModels(t, name, <<"m9">>, scope)
    \/ \E t \in Threads : SavePersist(t)
    \/ \E t \in Threads : SaveRpc(t)
    \/ \E t \in Threads : SaveFileWrite(t)
    \/ \E t \in Threads : LoadFromSources(t)
    \/ \E t \in Threads : LoadWs(t)
    \/ \E t \in Threads : LoadRpc(t)
    \/ \E t \in Threads : LoadCommit(t)
    \/ \E t \in Threads, name \in CacheNames : ReadProvider(t, name)

SpecCache == InitCache /\ [][NextCache]_vars

\* In this step thread t's call of op has made its insert into the cache
Inserts(t, op) == th[t].pc = "idle" /\ th'[t].op = op /\ th'[t].pc = "save_persist"

\* Whether the cache m' is m with the entry under the lower-cased name set to
\* the given enabled flag, models and api_base, and nothing else changed
OnlyEntryChanged(m, after, name, enabled, models, api_base) ==
    LET key == ToLowercase(name)
    IN /\ DOMAIN after = DOMAIN m \cup {key}
       /\ \A k \in DOMAIN m \ {key} : after[k] = m[k]
       /\ after[key].enabled = enabled
       /\ after[key].models = models
       /\ after[key].api_base = api_base

\* C36: toggle_provider(name, enabled, scope) changes only the enabled flag
\* of the cached provider: afterwards the cache entry for name has the given
\* enabled value and the models and api_base it had before the call (empty
\* models and no api_base if it did not exist); update_provider_models
\* likewise changes only models, keeping enabled (true if the provider is
\* new) and api_base.
C36_ToggleChangesOnlyEnabled ==
    [][\A t \in Threads :
          LET key == ToLowercase(th'[t].name)
              held == key \in DOMAIN providers
              given == Unwrap(th'[t].prov)
          IN /\ Inserts(t, "toggle_provider")
                => OnlyEntryChanged(providers, providers', th'[t].name, given.enabled,
                                    IF held THEN providers[key].models ELSE <<>>,
                                    IF held THEN providers[key].api_base ELSE None)
             /\ Inserts(t, "update_provider_models")
                => OnlyEntryChanged(providers, providers', th'[t].name,
                                    IF held THEN providers[key].enabled ELSE TRUE,
                                    given.models,
                                    IF held THEN providers[key].api_base ELSE None)]_vars

\* toggle_provider("Ai", true) has made its insert: the entry loaded from
\* the file as "ai" is enabled and still has its model
C36_Witness ==
    \E t \in Threads :
        /\ th[t].op = "toggle_provider"
        /\ th[t].name = N_Ai
        /\ N_ai \in DOMAIN providers
        /\ providers[N_ai].enabled
        /\ providers[N_ai].models = <<"m0">>
        /\ providers[N_ai].name = N_Ai

\* C39: in every reachable state of the global provider cache each key equals
\* the lowercased name of the entry stored under it, so the cache never holds
\* two entries whose names are equal ignoring case, and get_provider(n) finds
\* an entry exactly when the key lowercase(n) is present.
C39_KeysAreLowercasedNames ==
    /\ \A k \in DOMAIN providers : k = ToLowercase(providers[k].name)
    /\ \A j, k \in DOMAIN providers :
          ToLowercase(providers[j].name) = ToLowercase(providers[k].name) => j = k
    /\ \A n \in CacheNames \cup { c.name : c \in CacheInputs } :
          (GetProvider(providers, n) # {None}) <=> (ToLowercase(n) \in DOMAIN providers)

\* get_provider("Ai") has returned the entry kept under the key "ai"
C39_Witness ==
    \E t \in Threads :
        /\ th[t].op = "get_provider"
        /\ th[t].name = N_Ai
        /\ N_ai \in DOMAIN providers
        /\ th[t].result = Ok(Some(providers[N_ai]))

----------------------------------------------------------------------------
(* One CancellationToken, its clones, and threads that wait on it and cancel it *)

InitToken ==
    /\ providers = EmptyMap
    /\ files = [scope \in Scopes |-> MissingFile]
    /\ registry = {}
    /\ hostUp = [ep \in EndpointNames |-> TRUE]
    /\ hostSettings = InitHostSettings
    /\ th = [t \in Threads |-> IdleThread(NewResolver)]
    /\ opsLeft = 0
    /\ concurrent = FALSE
    /\ QuietSecrets
    /\ mem = <<>>
    /\ fcp = [disk |-> MissingFile, cache |-> None]
    /\ cout = NoStoreCall
    /\ QuietRegistry
    /\ QuietClients
    /\ QuietWire
    /\ QuietKeyring
    /\ QuietMemory
    /\ QuietChain
    /\ token = NewToken

NextToken ==
    \/ TokenClone
    \/ \E w \in Waiters, h \in Handles : CancelledCheck(w, h)
    \/ \E w \in Waiters : CancelledNotified(w)
    \/ \E w \in Waiters : CancelledWake(w)
    \/ \E c \in Cancellers, h \in Handles : CancelSwap(c, h)
    \/ \E c \in Cancellers : CancelNotifyWaiters(c)

SpecToken == InitToken /\ [][NextToken]_vars

\* A thread inside cancel() or inside cancelled() keeps running, and a task
\* whose Notified future was woken is polled again; nothing obliges a thread
\* to start a call, or a program to clone the token
TokenFairness ==
    /\ \A w \in Waiters : WF_vars(CancelledNotified(w))
    /\ \A w \in Waiters : WF_vars(CancelledWake(w))
    /\ \A c \in Cancellers : WF_vars(CancelNotifyWaiters(c))

SpecTokenFair == SpecToken /\ TokenFairness

CancelCalled == \E c \in Cancellers : token.cancel[c].pc # "idle"
WaitPending(w) == token.wait[w].pc \in {"checked", "waiting"}
WaitDone(w) == token.wait[w].pc = "done"

\* C37: once cancel() has been called on a CancellationToken, every
\* cancelled() wait on the token or on a clone of it eventually completes,
\* whether it began before the cancel, after it, or concurrently with it.
C37_EveryWaitCompletes ==
    \A w \in Waiters : (CancelCalled /\ WaitPending(w)) ~> WaitDone(w)

\* A wait that found the flag clear and made its Notified future only after
\* cancel() had notified: nothing is left to wake it
C37_Witness ==
    \E w \in Waiters :
        /\ token.wait[w].pc = "waiting"
        /\ token.wait[w].seen = token.notify_waiters_calls
        /\ \A c \in Cancellers : token.cancel[c].pc # "notify"
        /\ CancelCalled

----------------------------------------------------------------------------
(* The Node binding's UnifiedConfigResolver: its config source and its writes *)

\* The binding's save_provider and remove_provider run the resolver's own
\* methods on a clone of self.inner, which chooses as self.inner would
SourceStrings == {S_native, S_vscode}

InitNapi ==
    /\ providers = EmptyMap
    /\ files = [scope \in Scopes |-> MissingFile]
    /\ registry \in { {}, {"vscode"} }
    /\ hostUp = [ep \in EndpointNames |-> TRUE]
    /\ hostSettings = InitHostSettings
    /\ th = [t \in Threads |-> IdleThread(NewResolver)]
    /\ opsLeft = MaxOps
    /\ concurrent = FALSE
    /\ QuietSecrets
    /\ QuietUnits

NextNapi ==
    \/ \E t \in Threads, source \in SourceStrings : NapiSetConfigSource(t, source)
    \/ \E t \in Threads, source \in SourceStrings : NapiSetConfigSourceSync(t, source)
    \/ \E t \in Threads : NapiGetConfigSource(t)
    \/ \E t \in Threads, p \in {F_ai, F_b}, scope \in Scopes : SaveProvider(t, p, scope)
    \/ \E t \in Threads : SavePersist(t)
    \/ \E t \in Threads : SaveRpc(t)
    \/ \E t \in Threads : SaveFileWrite(t)
    \/ \E t \in Threads, name \in {N_ai, N_b}, scope \in Scopes : RemoveProvider(t, name, scope)
    \/ \E t \in Threads : RemoveRpc(t)
    \/ \E t \in Threads : RemoveFileWrite(t)
    \/ \E t \in Threads : LoadWs(t)
    \/ \E t \in Threads : LoadRpc(t)
    \/ \E t \in Threads : LoadCommit(t)

SpecNapi == InitNapi /\ [][NextNapi]_vars

\* In this step thread t's set_config_source call on its binding completes
NapiSetCompletes(t) ==
    /\ th[t].op = "napi_set_config_source"
    /\ th[t].pc # "idle"
    /\ th'[t].pc = "idle"

\* C38: after the Node binding's set_config_source(s) completes, the same
\* object's get_config_source() returns s, and its later save_provider and
\* remove_provider calls choose their write destination according to s.
C38_SetConfigSourceTakesEffect ==
    [][\A t \in Threads :
          NapiSetCompletes(t) =>
              /\ NapiConfigSource(th'[t].res) = th[t].name
              /\ \A scope \in Scopes :
                    GetWriteDestination(th'[t].res, registry', scope)
                        = GetWriteDestination(
                              [th'[t].res EXCEPT !.config_source =
                                                     ConfigSourceFromStr(th[t].name)],
                              registry', scope)]_vars

\* set_config_source("vscode") has returned on a binding whose resolver
\* still prefers the native files
C38_Witness ==
    \E t \in Threads :
        /\ Returned(t, "napi_set_config_source")
        /\ th[t].name = S_vscode
        /\ th[t].res.config_source = "Native"

----------------------------------------------------------------------------
(* Two save_provider calls at once, both to the native file of one scope *)

\* Both threads' save_provider calls overlapped and have returned Ok, having
\* chosen the native file of the scope, for providers of different names
BothSavedNative(scope) ==
    /\ \A t \in Threads :
          /\ ReturnedOk(t, "save_provider")
          /\ th[t].scope = scope
          /\ IsSome(th[t].dest)
          /\ Unwrap(th[t].dest) = NativeDest(scope)
    /\ ~EqIgnoreAsciiCase(th["t1"].name, th["t2"].name)

\* The scope's file lists a provider of the thread's name
FileHasSaved(t, scope) ==
    \E i \in 1..Len(FileGetProviders(files[scope])) :
        EqIgnoreAsciiCase(FileGetProviders(files[scope])[i].name, th[t].name)

\* The cache holds the thread's provider under its lower-cased name
CacheHasSaved(t) == ToLowercase(th[t].name) \in DOMAIN providers

\* C40: when two save_provider calls for providers with different names, at
\* the same scope and with the native file as destination, run concurrently
\* in one process and both return Ok, the scope's file afterwards contains
\* both providers, as the cache does.
C40_ConcurrentSavesBothInFile ==
    \A scope \in Scopes :
        BothSavedNative(scope) =>
            \A t \in Threads : FileHasSaved(t, scope) /\ CacheHasSaved(t)

\* Both calls have returned Ok and the cache holds both providers
C40_Witness ==
    \E scope \in Scopes :
        /\ BothSavedNative(scope)
        /\ \A t \in Threads : CacheHasSaved(t)
        /\ \E t \in Threads : ~FileHasSaved(t, scope)

====
